---- MODULE Spec2Model ----
\* Conversation engine of telegram-survey-bot: the update dispatcher
\* (HandleUpdate / handleMessage / handleCallbackQuery), the record FSM with
\* its enter callbacks, the question strategies and the forward pipeline,
\* for one participant in a private chat.  A dispatch runs under the
\* participant's mutex from start to end, so one dispatch is one step.
EXTENDS Integers, Sequences, FiniteSets, TLC

\* ------------------------------------------------------------------ bounds
\* Saved records a participant may hold.
MaxRecords == 2
\* Message identifiers the transport hands out are 1..MaxMsgID.
MaxMsgID == 1
\* Entries a text_rating question collects in a run of SpecRating.
MaxEntries == 2
\* Calls of MustRegister in a run of SpecRegistry.
MaxRegistrations == 3
\* The last tick of the wall clock in a run of SpecForward.
MaxClock == 5
\* Goroutines the main loop starts in a run of SpecLocks.
MaxGoroutines == 2
\* Updates the main loop receives in a run of SpecTasks.
MaxTasks == 3

\* ------------------------------------------------------- program constants
StateIdle == "idle"
StateViewingList == "viewingList"
StateRecordIdle == "record_idle"
StateSelectingSection == "selecting_section"
StateAnsweringQuestion == "answering_question"

EventStartRecord == "start_record"
EventSelectSection == "select_section"
EventAnswerQuestion == "answer_question"
EventSectionComplete == "section_complete"
EventCancelSection == "cancel_section"
EventSaveFullRecord == "save_full_record"
EventExitToMainMenu == "exit_to_main_menu"
EventForceExit == "force_exit"

\* Strings that the code splits or trims are sequences of tokens; ":" is the
\* separator token and " " the whitespace token.
CallbackActionPrefix == <<"action", ":">>
CallbackSectionPrefix == <<"section", ":">>
CallbackAnswerPrefix == <<"answer", ":">>
CallbackListNavPrefix == <<"list_nav", ":">>

ActionSaveRecord == <<"save_record">>
ActionNewRecord == <<"new_record">>
ActionExitMenu == <<"exit_menu">>
ActionCancelSection == <<"cancel_section">>
ActionShareLast == <<"share_last">>

ButtonMainMenuFillRecord == <<"Fill record">>
ButtonMainMenuShowRecord == <<"Show record">>
ButtonMainMenuSendSelf == <<"Send to self">>
ButtonMainMenuSendTherapist == <<"Send to reviewer">>

\* The participant (private chat: the chat id is the participant id) and the
\* reviewer that TARGET_USER_ID names.
UserID == 1
TargetID == 999

None == [rid |-> 0]
EmptyData == [k \in {} |-> <<>>]
NoMessage == [chat |-> 0, mid |-> 0, transport |-> ""]

\* ------------------------------------------------------------ the schema
\* A schema that RecordConfig.Validate accepts: titles are set, store keys
\* are unique, the button question has options, and section "e" has no
\* questions (Validate skips such a section).  Section "p" holds a question
\* of a type served by a strategy other than the two built-ins.
Sections ==
  ( <<"a">> :> [title |-> "A",
                questions |-> << [id |-> <<"q1">>, type |-> "buttons",
                                  prompt |-> "prompt_q1",
                                  storeKey |-> "town",
                                  options |-> << <<"tb">>, <<"ot">> >>],
                                 [id |-> <<"q2">>, type |-> "text",
                                  prompt |-> "prompt_q2",
                                  storeKey |-> "note", options |-> <<>>] >>] )
  @@ ( <<"e">> :> [title |-> "E", questions |-> <<>>] )
  @@ ( <<"Personal">> :>
         [title |-> "Personal",
          questions |-> << [id |-> <<"q1">>, type |-> "text",
                            prompt |-> "prompt_name",
                            storeKey |-> "name", options |-> <<>>],
                           [id |-> <<"q2">>, type |-> "buttons",
                            prompt |-> "prompt_city",
                            storeKey |-> "city",
                            options |-> << <<"tb">>, <<"ot">> >>] >>] )
  @@ ( <<"p">> :> [title |-> "P",
                   questions |-> << [id |-> <<"q9">>, type |-> "custom",
                                     prompt |-> "prompt_q9",
                                     storeKey |-> "plug", options |-> <<>>] >>] )

\* ------------------------------------------------------ string operations
RECURSIVE TrimLeft(_)
TrimLeft(s) ==
  IF s # <<>> /\ Head(s) = " " THEN TrimLeft(Tail(s)) ELSE s

RECURSIVE TrimRight(_)
TrimRight(s) ==
  IF s # <<>> /\ s[Len(s)] = " " THEN TrimRight(SubSeq(s, 1, Len(s) - 1)) ELSE s

TrimSpace(s) == TrimRight(TrimLeft(s))

\* Index of the first ":" token of s, 0 when there is none.
FirstColon(s) ==
  IF \E i \in 1..Len(s) : s[i] = ":"
  THEN CHOOSE i \in 1..Len(s) : s[i] = ":" /\ \A j \in 1..(i - 1) : s[j] # ":"
  ELSE 0

\* strings.SplitN(s, ":", 2)
SplitN2(s) ==
  LET i == FirstColon(s)
  IN IF i = 0 THEN << s >>
     ELSE << SubSeq(s, 1, i - 1), SubSeq(s, i + 1, Len(s)) >>

\* ---------------------------------------------------------- record data
DataGet(d, k) == IF k \in DOMAIN d THEN d[k] ELSE <<>>

DataPut(d, k, v) == [x \in (DOMAIN d) \cup {k} |-> IF x = k THEN v ELSE d[x]]

\* A record's rid is its identity (the pointer in the code): NewRecord returns
\* a record that differs from every record the user state still refers to.
FreshRid(recs) ==
  CHOOSE r \in 1..(Len(recs) + 1) :
    /\ \A i \in 1..Len(recs) : recs[i].rid # r
    /\ \A q \in 1..(r - 1) : \E i \in 1..Len(recs) : recs[i].rid = q

NewRecord(recs) ==
  [rid |-> FreshRid(recs), data |-> EmptyData, saved |-> FALSE, created |-> FALSE]

\* A text_rating question that has not been loaded.
NoQuestion ==
  [id |-> "", storeKey |-> "", options |-> <<>>, ratingMin |-> 0, ratingMax |-> 0]

\* ------------------------------------------------------------- the state
VARIABLES
  records,          \* UserState.Records
  draft,            \* UserState.CurrentRecord (None when nil)
  recordFSM,        \* UserState.RecordFSM.Current()
  mainFSM,          \* UserState.MainMenuFSM.Current()
  currentSection,   \* UserState.CurrentSection
  currentQuestion,  \* UserState.CurrentQuestion
  lastMessageID,    \* UserState.LastMessageID
  lastPrompt,       \* UserState.LastPrompt
  listOffset,       \* UserState.ListOffset
  targetUserID,     \* config.targetUserID
  calls,            \* port calls of the last dispatch, in order
  arrivals,         \* updates the main loop has taken from the channel
  tasks,            \* goroutines started for them that do not hold Mu yet
  handled,          \* arrival numbers of the updates handled, in order
  script,           \* updates of HappyScript dispatched so far (SpecHappy)
  ratingQuestion,   \* config.QuestionConfig of the text_rating question
  validated,        \* what TextRatingStrategy.Validate said of it
  lastAnswer,       \* the last HandleAnswer of the strategy: input, result
  registry,         \* questions.registry: normalized name -> strategy
  attempts,         \* names MustRegister was called with, in order
  panicked,         \* the last MustRegister panicked
  wallClock,        \* time.Now(), in ticks
  forwardRecord,    \* the record a forward message is built for
  rendered,         \* the forward messages rendered for it, in order
  userName,         \* UserState.UserName
  userMu,           \* UserState.Mu: the goroutine that holds it, 0 when free
  menuRows,         \* the section rows of the last section menu's keyboard
  menuBefore,       \* the section rows of the menu shown before that one
  storeMu,          \* Store.mu: the goroutine that holds it, 0 when free
  users,            \* Store.users: participant id -> user state instance
  heap,             \* the user state instances: UserName, Mu's holder, fields
  goroutines,       \* the HandleUpdate goroutines: position, arguments, result
  returnedFor       \* participant id -> instances GetOrCreateUserState returned

vars == << records, draft, recordFSM, mainFSM, currentSection,
           currentQuestion, lastMessageID, lastPrompt, listOffset,
           targetUserID, calls, arrivals, tasks, handled, script,
           ratingQuestion, validated, lastAnswer,
           registry, attempts, panicked,
           wallClock, forwardRecord, rendered, userName, userMu,
           menuRows, menuBefore,
           storeMu, users, heap, goroutines, returnedFor >>

\* The dispatcher's variables.
engineVars == << records, draft, recordFSM, mainFSM, currentSection,
                 currentQuestion, lastMessageID, lastPrompt, listOffset,
                 targetUserID, calls, arrivals, tasks, handled, script >>

\* The text_rating question and the registry of a test run.
ratingVars == << ratingQuestion, validated, lastAnswer >>
registryVars == << registry, attempts, panicked >>
forwardVars == << wallClock, forwardRecord, rendered >>
lockVars == << userName, userMu >>
menuVars == << menuRows, menuBefore >>
storeVars == << storeMu, users, heap, goroutines, returnedFor >>

\* The variables of the components the dispatcher's steps leave alone.
partVars == << ratingVars, registryVars, forwardVars, lockVars, menuVars, storeVars >>

\* The user state as one value, the form the handlers below pass along.
US ==
  [records |-> records, draft |-> draft,
   recordFSM |-> recordFSM, mainFSM |-> mainFSM,
   currentSection |-> currentSection, currentQuestion |-> currentQuestion,
   lastMessageID |-> lastMessageID, lastPrompt |-> lastPrompt,
   listOffset |-> listOffset, calls |-> <<>>]

\* ------------------------------------------------------------- the port
\* Outcome of the one port call of a dispatch whose result the code looks at
\* (the prompt send/edit, the completion edit, or the send to the forward
\* target; a dispatch makes at most one of them).  "nm_wrapped" is
\* message_not_modified wrapping the transport's text "message is not
\* modified"; "nm_bare" carries the code only.
MsgIDs == 1..MaxMsgID

Outcomes ==
  { [res |-> "ok", id |-> i] : i \in MsgIDs }
  \cup { [res |-> r, id |-> 0] : r \in {"nm_wrapped", "nm_bare", "err"} }

\* A send is never answered with message_not_modified.
SendOutcome(oc) ==
  IF oc.res \in {"nm_wrapped", "nm_bare"} THEN [res |-> "err", id |-> 0] ELSE oc

\* strings.Contains(err.Error(), "message is not modified")
ErrorTextNotModified(oc) == oc.res = "nm_wrapped"

\* botport.IsCode(err, "message_not_modified")
IsCodeNotModified(oc) == oc.res \in {"nm_wrapped", "nm_bare"}

SendMessage(st, chat, text, res) ==
  [st EXCEPT !.calls = Append(@, [op |-> "send", chat |-> chat, mid |-> 0,
                                  text |-> text, res |-> res, rid |-> 0])]

\* The send of the rendered record rid to the forward target.
SendForward(st, chat, rid, res) ==
  [st EXCEPT !.calls = Append(@, [op |-> "send", chat |-> chat, mid |-> 0,
                                  text |-> "forward_text", res |-> res, rid |-> rid])]

EditMessage(st, chat, mid, text, res) ==
  [st EXCEPT !.calls = Append(@, [op |-> "edit", chat |-> chat, mid |-> mid,
                                  text |-> text, res |-> res, rid |-> 0])]

\* An acknowledgement that comes after a notice to the participant.
AnswerCallback_afterNotice(st, callbackQueryID, text) ==
  [st EXCEPT !.calls = @ \o << [op |-> "send", chat |-> UserID, mid |-> 0,
                                text |-> "working", res |-> "-", rid |-> 0],
                               [op |-> "ack", qid |-> callbackQueryID,
                                chat |-> 0, mid |-> 0,
                                text |-> text, res |-> "-", rid |-> 0] >>]

AnswerCallback(st, callbackQueryID, text) ==
  [st EXCEPT !.calls = Append(@, [op |-> "ack", qid |-> callbackQueryID,
                                  chat |-> 0, mid |-> 0,
                                  text |-> text, res |-> "-", rid |-> 0])]

\* A main menu that opens the list of records on the way.
sendMainMenu_firesViewList(st) ==
  [SendMessage(st, UserID, "main_menu", "-") EXCEPT !.mainFSM = StateViewingList]

sendMainMenu(st) == SendMessage(st, UserID, "main_menu", "-")

\* ------------------------------------------------------- the record FSM
\* An events table whose start_record leads to answering_question.
RecordEvents_startToAnswering ==
  { << EventStartRecord, StateRecordIdle, StateAnsweringQuestion >>,
    << EventSelectSection, StateSelectingSection, StateAnsweringQuestion >>,
    << EventAnswerQuestion, StateAnsweringQuestion, StateAnsweringQuestion >>,
    << EventSectionComplete, StateAnsweringQuestion, StateSelectingSection >>,
    << EventCancelSection, StateAnsweringQuestion, StateSelectingSection >>,
    << EventSaveFullRecord, StateSelectingSection, StateRecordIdle >>,
    << EventExitToMainMenu, StateSelectingSection, StateRecordIdle >>,
    << EventForceExit, StateSelectingSection, StateRecordIdle >>,
    << EventForceExit, StateAnsweringQuestion, StateRecordIdle >> }

\* An events table whose save_full_record stays in selecting_section.
RecordEvents_saveStays ==
  { << EventStartRecord, StateRecordIdle, StateSelectingSection >>,
    << EventSelectSection, StateSelectingSection, StateAnsweringQuestion >>,
    << EventAnswerQuestion, StateAnsweringQuestion, StateAnsweringQuestion >>,
    << EventSectionComplete, StateAnsweringQuestion, StateSelectingSection >>,
    << EventCancelSection, StateAnsweringQuestion, StateSelectingSection >>,
    << EventSaveFullRecord, StateSelectingSection, StateSelectingSection >>,
    << EventExitToMainMenu, StateSelectingSection, StateRecordIdle >>,
    << EventForceExit, StateSelectingSection, StateRecordIdle >>,
    << EventForceExit, StateAnsweringQuestion, StateRecordIdle >> }

\* Events table of NewRecordFSM: <<event, source, destination>>.
RecordEvents ==
  { << EventStartRecord, StateRecordIdle, StateSelectingSection >>,
    << EventSelectSection, StateSelectingSection, StateAnsweringQuestion >>,
    << EventAnswerQuestion, StateAnsweringQuestion, StateAnsweringQuestion >>,
    << EventSectionComplete, StateAnsweringQuestion, StateSelectingSection >>,
    << EventCancelSection, StateAnsweringQuestion, StateSelectingSection >>,
    << EventSaveFullRecord, StateSelectingSection, StateRecordIdle >>,
    << EventExitToMainMenu, StateSelectingSection, StateRecordIdle >>,
    << EventForceExit, StateSelectingSection, StateRecordIdle >>,
    << EventForceExit, StateAnsweringQuestion, StateRecordIdle >> }

\* A record stored under save_full_record without its saved flag.
finalizeRecord_noFlag(rec) == [rec EXCEPT !.created = TRUE]

\* The draft as enter_record_idle stores it: IsSaved set, CreatedAt and ID
\* assigned.
finalizeRecord(rec) == [rec EXCEPT !.saved = TRUE, !.created = TRUE]

\* enter_record_idle that drops the draft on force_exit as well.
enterRecordIdle_dropsDraft(st, event, chatID, messageID, oc) ==
  LET recordToFinalize == st.draft
      saveRecord == event = EventSaveFullRecord /\ recordToFinalize # None
      clearDraft == event # EventExitToMainMenu
      finalText ==
        CASE event = EventSaveFullRecord /\ recordToFinalize # None -> "record_saved"
          [] event = EventSaveFullRecord /\ recordToFinalize = None -> "no_draft_to_save"
          [] event = EventExitToMainMenu -> "exit_draft_kept"
          [] event = EventForceExit -> "force_exit"
          [] OTHER -> "operation_done"
      st1 == [st EXCEPT
                !.records = IF saveRecord THEN Append(@, finalizeRecord(recordToFinalize)) ELSE @,
                !.currentSection = <<>>,
                !.currentQuestion = 0,
                !.lastMessageID = 0,
                !.draft = IF clearDraft THEN None ELSE @]
      st2 == IF messageID # 0
             THEN LET edited == EditMessage(st1, chatID, messageID, finalText, oc.res)
                  IN IF oc.res # "ok" /\ ~ErrorTextNotModified(oc)
                     THEN SendMessage(edited, chatID, finalText, "-")
                     ELSE edited
             ELSE SendMessage(st1, chatID, finalText, "-")
  IN sendMainMenu(st2)

\* enter_record_idle that leaves the position fields as they were.
enterRecordIdle_keepsPosition(st, event, chatID, messageID, oc) ==
  LET recordToFinalize == st.draft
      saveRecord == event = EventSaveFullRecord /\ recordToFinalize # None
      clearDraft == event \notin {EventExitToMainMenu, EventForceExit}
      finalText ==
        CASE event = EventSaveFullRecord /\ recordToFinalize # None -> "record_saved"
          [] event = EventSaveFullRecord /\ recordToFinalize = None -> "no_draft_to_save"
          [] event = EventExitToMainMenu -> "exit_draft_kept"
          [] event = EventForceExit -> "force_exit"
          [] OTHER -> "operation_done"
      st1 == [st EXCEPT
                !.records = IF saveRecord THEN Append(@, finalizeRecord(recordToFinalize)) ELSE @,
                !.lastMessageID = 0,
                !.draft = IF clearDraft THEN None ELSE @]
      st2 == IF messageID # 0
             THEN LET edited == EditMessage(st1, chatID, messageID, finalText, oc.res)
                  IN IF oc.res # "ok" /\ ~ErrorTextNotModified(oc)
                     THEN SendMessage(edited, chatID, finalText, "-")
                     ELSE edited
             ELSE SendMessage(st1, chatID, finalText, "-")
  IN sendMainMenu(st2)

\* enter_record_idle callback.
\* A final status message that is always an edit, known message or not.
enterRecordIdle_editsAlways(st, event, chatID, messageID, oc) ==
  LET recordToFinalize == st.draft
      saveRecord == event = EventSaveFullRecord /\ recordToFinalize # None
      clearDraft == event \notin {EventExitToMainMenu, EventForceExit}
      finalText ==
        CASE event = EventSaveFullRecord /\ recordToFinalize # None -> "record_saved"
          [] event = EventSaveFullRecord /\ recordToFinalize = None -> "no_draft_to_save"
          [] event = EventExitToMainMenu -> "exit_draft_kept"
          [] event = EventForceExit -> "force_exit"
          [] OTHER -> "operation_done"
      st1 == [st EXCEPT
                !.records = IF saveRecord THEN Append(@, finalizeRecord(recordToFinalize)) ELSE @,
                !.currentSection = <<>>,
                !.currentQuestion = 0,
                !.lastMessageID = 0,
                !.draft = IF clearDraft THEN None ELSE @]
      edited == EditMessage(st1, chatID, messageID, finalText, oc.res)
      st2 == IF oc.res # "ok" /\ ~ErrorTextNotModified(oc)
             THEN SendMessage(edited, chatID, finalText, "-")
             ELSE edited
  IN sendMainMenu(st2)

enterRecordIdle(st, event, chatID, messageID, oc) ==
  LET recordToFinalize == st.draft
      saveRecord == event = EventSaveFullRecord /\ recordToFinalize # None
      clearDraft == event \notin {EventExitToMainMenu, EventForceExit}
      finalText ==
        CASE event = EventSaveFullRecord /\ recordToFinalize # None -> "record_saved"
          [] event = EventSaveFullRecord /\ recordToFinalize = None -> "no_draft_to_save"
          [] event = EventExitToMainMenu -> "exit_draft_kept"
          [] event = EventForceExit -> "force_exit"
          [] OTHER -> "operation_done"
      st1 == [st EXCEPT
                !.records = IF saveRecord THEN Append(@, finalizeRecord(recordToFinalize)) ELSE @,
                !.currentSection = <<>>,
                !.currentQuestion = 0,
                !.lastMessageID = 0,
                !.draft = IF clearDraft THEN None ELSE @]
      st2 == IF messageID # 0
             THEN LET edited == EditMessage(st1, chatID, messageID, finalText, oc.res)
                  IN IF oc.res # "ok" /\ ~ErrorTextNotModified(oc)
                     THEN SendMessage(edited, chatID, finalText, "-")
                     ELSE edited
             ELSE SendMessage(st1, chatID, finalText, "-")
  IN sendMainMenu(st2)

\* The strategies of the registry: the two built-ins and one registered
\* through MustRegister ("custom"), of which the engine knows only the
\* QuestionStrategy interface.
Registered == {"text", "buttons", "custom"}

\* strategy.Render: the built-in strategies return the question's prompt and
\* never fail; the custom strategy is one whose Render returns an error.
Render(question) ==
  IF question.type = "custom"
  THEN [text |-> "", err |-> "render failed"]
  ELSE [text |-> question.prompt, err |-> "nil"]

\* askCurrentQuestion that keeps the empty handle a refused edit returns.
askCurrentQuestion_zeroHandle(st, messageIDToEdit, oc) ==
  LET sectionID == st.currentSection
      qIndex == st.currentQuestion
      lastMsgID == st.lastMessageID
  IN IF sectionID \notin DOMAIN Sections
     THEN SendMessage(st, UserID, "section_config_error", "-")
     ELSE IF qIndex < 0 \/ qIndex >= Len(Sections[sectionID].questions)
     THEN SendMessage(st, UserID, "question_navigation_error", "-")
     ELSE IF Sections[sectionID].questions[qIndex + 1].type \notin Registered
     THEN SendMessage(st, UserID, "unknown_question_type", "-")
     ELSE IF Render(Sections[sectionID].questions[qIndex + 1]).err # "nil"
     THEN SendMessage(st, UserID, "could_not_prepare_question", "-")
     ELSE
       LET question == Sections[sectionID].questions[qIndex + 1]
           prompt == Render(question)
           useLast == messageIDToEdit = 0 /\ lastMsgID # 0
           effectiveMessageID == IF useLast THEN lastMsgID ELSE messageIDToEdit
           isEdit == messageIDToEdit # 0 \/ useLast
           doEdit == isEdit /\ effectiveMessageID # 0
           o == IF doEdit THEN oc ELSE SendOutcome(oc)
           called == IF doEdit
                     THEN EditMessage(st, UserID, effectiveMessageID, prompt.text, o.res)
                     ELSE SendMessage(st, UserID, prompt.text, o.res)
           sentMsg ==
             IF o.res = "ok"
             THEN [chat |-> UserID,
                   mid |-> IF doEdit THEN effectiveMessageID ELSE o.id,
                   transport |-> "telegram"]
             ELSE NoMessage
       IN IF o.res # "ok" /\ ~(isEdit /\ IsCodeNotModified(o))
          THEN called
          ELSE [called EXCEPT !.lastMessageID = sentMsg.mid, !.lastPrompt = sentMsg]

\* askCurrentQuestion: render the current question and send or edit its prompt.
askCurrentQuestion(st, messageIDToEdit, oc) ==
  LET sectionID == st.currentSection
      qIndex == st.currentQuestion
      lastMsgID == st.lastMessageID
  IN IF sectionID \notin DOMAIN Sections
     THEN SendMessage(st, UserID, "section_config_error", "-")
     ELSE IF qIndex < 0 \/ qIndex >= Len(Sections[sectionID].questions)
     THEN SendMessage(st, UserID, "question_navigation_error", "-")
     ELSE IF Sections[sectionID].questions[qIndex + 1].type \notin Registered
     THEN SendMessage(st, UserID, "unknown_question_type", "-")
     ELSE IF Render(Sections[sectionID].questions[qIndex + 1]).err # "nil"
     THEN SendMessage(st, UserID, "could_not_prepare_question", "-")
     ELSE
       LET question == Sections[sectionID].questions[qIndex + 1]
           prompt == Render(question)
           useLast == messageIDToEdit = 0 /\ lastMsgID # 0
           effectiveMessageID == IF useLast THEN lastMsgID ELSE messageIDToEdit
           isEdit == messageIDToEdit # 0 \/ useLast
           doEdit == isEdit /\ effectiveMessageID # 0
           o == IF doEdit THEN oc ELSE SendOutcome(oc)
           called == IF doEdit
                     THEN EditMessage(st, UserID, effectiveMessageID, prompt.text, o.res)
                     ELSE SendMessage(st, UserID, prompt.text, o.res)
           sentMsg ==
             IF o.res = "ok"
             THEN [chat |-> UserID,
                   mid |-> IF doEdit THEN effectiveMessageID ELSE o.id,
                   transport |-> "telegram"]
             ELSE [chat |-> UserID, mid |-> effectiveMessageID, transport |-> "telegram"]
       IN IF o.res # "ok" /\ ~(isEdit /\ IsCodeNotModified(o))
          THEN called
          ELSE [called EXCEPT !.lastMessageID = sentMsg.mid, !.lastPrompt = sentMsg]

\* enter_answering_question callback.
enterAnsweringQuestion(st, messageIDFromEvent, oc) ==
  askCurrentQuestion(st, messageIDFromEvent, oc)

RECURSIVE Event(_, _, _, _, _)

\* A section menu that starts from an empty draft each time it is shown.
enterSelectingSection_emptiesDraft(st, chatID, messageID, oc) ==
  IF st.draft = None
  THEN Event(st, EventForceExit, chatID, messageID, oc).st
  ELSE
    LET o == IF messageID # 0 THEN oc ELSE SendOutcome(oc)
        emptied == [st EXCEPT !.draft.data = EmptyData]
        called == IF messageID # 0
                  THEN EditMessage(emptied, chatID, messageID, "section_menu", o.res)
                  ELSE SendMessage(emptied, chatID, "section_menu", o.res)
        sentMid == IF o.res = "ok"
                   THEN (IF messageID # 0 THEN messageID ELSE o.id)
                   ELSE messageID
    IN IF o.res # "ok" /\ ~ErrorTextNotModified(o)
       THEN Event(called, EventForceExit, chatID, 0, oc).st
       ELSE [called EXCEPT
               !.lastMessageID = sentMid,
               !.lastPrompt = [chat |-> chatID, mid |-> sentMid, transport |-> "telegram"]]

\* enter_selecting_section callback.
enterSelectingSection(st, chatID, messageID, oc) ==
  IF st.draft = None
  THEN \* logAndForceExit
       Event(st, EventForceExit, chatID, messageID, oc).st
  ELSE
    LET o == IF messageID # 0 THEN oc ELSE SendOutcome(oc)
        called == IF messageID # 0
                  THEN EditMessage(st, chatID, messageID, "section_menu", o.res)
                  ELSE SendMessage(st, chatID, "section_menu", o.res)
        sentMid == IF o.res = "ok"
                   THEN (IF messageID # 0 THEN messageID ELSE o.id)
                   ELSE messageID
    IN IF o.res # "ok" /\ ~ErrorTextNotModified(o)
       THEN Event(called, EventForceExit, chatID, 0, oc).st
       ELSE [called EXCEPT
               !.lastMessageID = sentMid,
               !.lastPrompt = [chat |-> chatID, mid |-> sentMid, transport |-> "telegram"]]

\* fsm.Event of the record FSM: an event that has no transition from the
\* current state is refused, a transition to the current state runs no enter
\* callback and reports NoTransitionError, any other one sets the state and
\* runs the destination's enter callback.
Event(st, event, chatID, messageID, oc) ==
  LET edges == { t \in RecordEvents : t[1] = event /\ t[2] = st.recordFSM }
  IN IF edges = {}
     THEN [st |-> st, err |-> "invalid_event"]
     ELSE
       LET dst == (CHOOSE t \in edges : TRUE)[3]
           moved == [st EXCEPT !.recordFSM = dst]
       IN IF dst = st.recordFSM
          THEN [st |-> st, err |-> "no_transition"]
          ELSE [st |-> CASE dst = StateSelectingSection ->
                              enterSelectingSection(moved, chatID, messageID, oc)
                         [] dst = StateAnsweringQuestion ->
                              enterAnsweringQuestion(moved, messageID, oc)
                         [] OTHER ->
                              enterRecordIdle(moved, event, chatID, messageID, oc),
                err |-> "nil"]

isNoTransitionError(err) == err = "no_transition"

\* fsm.Event of an engine that performs a transition to the current state
\* like any other: it runs the enter callback and reports no error.
EventPerformed(st, event, chatID, messageID, oc) ==
  LET edges == { t \in RecordEvents : t[1] = event /\ t[2] = st.recordFSM }
  IN IF edges = {}
     THEN [st |-> st, err |-> "invalid_event"]
     ELSE
       LET dst == (CHOOSE t \in edges : TRUE)[3]
           moved == [st EXCEPT !.recordFSM = dst]
       IN [st |-> CASE dst = StateSelectingSection ->
                         enterSelectingSection(moved, chatID, messageID, oc)
                    [] dst = StateAnsweringQuestion ->
                         enterAnsweringQuestion(moved, messageID, oc)
                    [] OTHER ->
                         enterRecordIdle(moved, event, chatID, messageID, oc),
           err |-> "nil"]

\* ------------------------------------------------------ the strategies
NoResult == [advance |-> FALSE, repeat |-> FALSE, feedback |-> ""]
RepeatWith(fb) == [advance |-> FALSE, repeat |-> TRUE, feedback |-> fb]
Advance == [advance |-> TRUE, repeat |-> FALSE, feedback |-> ""]

\* A store that also writes the value into every record of the list.
StoreAnswer_intoRecords(st, question, value) ==
  IF st.draft = None
  THEN [st |-> st, result |-> NoResult, err |-> "record is nil"]
  ELSE [st |-> [st EXCEPT
                  !.draft.data = DataPut(@, question.storeKey, value),
                  !.records = [i \in DOMAIN @ |->
                                 [@[i] EXCEPT !.data = DataPut(@, question.storeKey, value)]]],
        result |-> Advance, err |-> "nil"]

\* The strategy stores value under the question's store key of the draft
\* (ensureRecord fails when there is no draft).
StoreAnswer(st, question, value) ==
  IF st.draft = None
  THEN [st |-> st, result |-> NoResult, err |-> "record is nil"]
  ELSE [st |-> [st EXCEPT !.draft.data = DataPut(@, question.storeKey, value)],
        result |-> Advance, err |-> "nil"]

\* A text strategy that advances without storing the answer.
textHandleAnswer_skips(st, question, input) ==
  IF input.source # "text"
  THEN [st |-> st, result |-> RepeatWith("send_text_please"), err |-> "nil"]
  ELSE IF TrimSpace(input.text) = <<>>
  THEN [st |-> st, result |-> RepeatWith("text_must_not_be_empty"), err |-> "nil"]
  ELSE [st |-> st, result |-> Advance, err |-> "nil"]

textHandleAnswer(st, question, input) ==
  IF input.source # "text"
  THEN [st |-> st, result |-> RepeatWith("send_text_please"), err |-> "nil"]
  ELSE IF TrimSpace(input.text) = <<>>
  THEN [st |-> st, result |-> RepeatWith("text_must_not_be_empty"), err |-> "nil"]
  ELSE StoreAnswer(st, question, TrimSpace(input.text))

findOption(question, value) ==
  { i \in 1..Len(question.options) : question.options[i] = value }

buttonsHandleAnswer(st, question, input) ==
  IF input.source # "callback"
  THEN [st |-> st, result |-> RepeatWith("use_the_buttons"), err |-> "nil"]
  ELSE IF findOption(question, input.callbackData) = {}
  THEN [st |-> st, result |-> RepeatWith("option_unavailable"), err |-> "nil"]
  ELSE StoreAnswer(st, question, input.callbackData)

\* HandleAnswer of the custom strategy: it returns an error.
customHandleAnswer(st, question, input) ==
  [st |-> st, result |-> NoResult, err |-> "answer failed"]

HandleAnswer(st, question, input) ==
  CASE question.type = "text" -> textHandleAnswer(st, question, input)
    [] question.type = "buttons" -> buttonsHandleAnswer(st, question, input)
    [] OTHER -> customHandleAnswer(st, question, input)

\* ---------------------------------------------- the text_rating strategy
stepCollectText == <<"text">>
stepCollectRating == <<"rating">>
stepNextOrFinish == <<"next_finish">>

getStepKey(questionID) == "_step_" \o questionID
getTempTextKey(questionID) == "_text_" \o questionID
getTempRatingKey(questionID) == "_rating_" \o questionID

\* delete(record.Data, k)
DataDel(d, k) == [x \in (DOMAIN d) \ {k} |-> d[x]]

\* TextRatingStrategy.Validate: "nil" when the question is accepted.
ratingValidate(q) ==
  IF Len(q.options) > 0 THEN "should not have options"
  ELSE IF q.ratingMin # 0 /\ q.ratingMin < 1 THEN "rating_min must be at least 1"
  ELSE IF q.ratingMax # 0 /\ q.ratingMax > 20 THEN "rating_max cannot exceed 20"
  ELSE IF q.ratingMin # 0 /\ q.ratingMax # 0 /\ q.ratingMin > q.ratingMax
  THEN "rating_min cannot be greater than rating_max"
  ELSE "nil"

\* getRatingRange: a bound that is not set takes its default.
getRatingRange(q) ==
  [min |-> IF q.ratingMin = 0 THEN 1 ELSE q.ratingMin,
   max |-> IF q.ratingMax = 0 THEN 10 ELSE q.ratingMax]

\* fmt.Sscanf(rating, "%d", &ratingInt): the integer the text starts with
\* (what follows it is not looked at), -1 standing for the scan error.
ScanInt(rating) ==
  CASE rating = <<"1">> -> 1
    [] rating = <<"11">> -> 11
    [] rating = <<"2x">> -> 2
    [] OTHER -> -1

isValidRating(q, rating) ==
  /\ ScanInt(rating) # -1
  /\ ScanInt(rating) >= getRatingRange(q).min
  /\ ScanInt(rating) <= getRatingRange(q).max

\* formatEntry: "- <text>\n  Rating: <rating>".
formatEntry(text, rating) == <<"- ">> \o text \o <<"\n  Rating: ">> \o rating

\* An entry put in front of the stored ones.
appendEntry_prepends(existing, entry) ==
  IF existing # <<>> THEN entry \o <<"\n">> \o existing ELSE entry

\* The value of the storage key once entry is added to it.
appendEntry(existing, entry) ==
  IF existing # <<>> THEN existing \o <<"\n">> \o entry ELSE entry

handleTextInput(st, q, input) ==
  IF input.source # "text" \/ TrimSpace(input.text) = <<>>
  THEN [st |-> st, result |-> RepeatWith("send_text_please"), err |-> "nil"]
  ELSE [st |-> [st EXCEPT !.draft.data =
                  DataPut(DataPut(@, getTempTextKey(q.id), TrimSpace(input.text)),
                          getStepKey(q.id), stepCollectRating)],
        result |-> RepeatWith(""), err |-> "nil"]

\* A rating step that moves on to next_finish even when it refuses the input.
handleRatingInput_marksStep(st, q, input) ==
  IF input.source # "callback" \/ ~isValidRating(q, input.callbackData)
  THEN [st |-> [st EXCEPT !.draft.data =
                  DataPut(@, getStepKey(q.id), stepNextOrFinish)],
        result |-> RepeatWith("choose_rating_in_range"), err |-> "nil"]
  ELSE [st |-> [st EXCEPT !.draft.data =
                  DataPut(DataPut(@, getTempRatingKey(q.id), input.callbackData),
                          getStepKey(q.id), stepNextOrFinish)],
        result |-> RepeatWith(""), err |-> "nil"]

handleRatingInput(st, q, input) ==
  IF input.source # "callback"
  THEN [st |-> st, result |-> RepeatWith("use_rating_buttons"), err |-> "nil"]
  ELSE IF ~isValidRating(q, input.callbackData)
  THEN [st |-> st, result |-> RepeatWith("choose_rating_in_range"), err |-> "nil"]
  ELSE [st |-> [st EXCEPT !.draft.data =
                  DataPut(DataPut(@, getTempRatingKey(q.id), input.callbackData),
                          getStepKey(q.id), stepNextOrFinish)],
        result |-> RepeatWith(""), err |-> "nil"]

handleNextFinishInput(st, q, input) ==
  LET data == st.draft.data
      text == DataGet(data, getTempTextKey(q.id))
      rating == DataGet(data, getTempRatingKey(q.id))
      stored == DataPut(data, q.storeKey,
                        appendEntry(DataGet(data, q.storeKey), formatEntry(text, rating)))
      cleaned == DataDel(DataDel(DataDel(stored, getStepKey(q.id)),
                                 getTempTextKey(q.id)), getTempRatingKey(q.id))
  IN IF input.source # "callback"
     THEN [st |-> st, result |-> RepeatWith("use_action_buttons"), err |-> "nil"]
     ELSE IF input.callbackData \notin { <<"next">>, <<"finish">> }
     THEN [st |-> st, result |-> RepeatWith("choose_next_or_finish"), err |-> "nil"]
     ELSE IF text = <<>> \/ rating = <<>>
     THEN [st |-> st, result |-> RepeatWith("could_not_read_last_answer"), err |-> "nil"]
     ELSE IF input.callbackData = <<"next">>
     THEN [st |-> [st EXCEPT !.draft.data =
                     DataPut(cleaned, getStepKey(q.id), stepCollectText)],
           result |-> RepeatWith(""), err |-> "nil"]
     ELSE [st |-> [st EXCEPT !.draft.data = cleaned],
           result |-> Advance, err |-> "nil"]

\* TextRatingStrategy.HandleAnswer.
ratingHandleAnswer(st, q, input) ==
  IF st.draft = None
  THEN [st |-> st, result |-> NoResult, err |-> "record is nil"]
  ELSE LET stored == DataGet(st.draft.data, getStepKey(q.id))
           currentStep == IF stored = <<>> THEN stepCollectText ELSE stored
       IN CASE currentStep = stepCollectText -> handleTextInput(st, q, input)
            [] currentStep = stepCollectRating -> handleRatingInput(st, q, input)
            [] currentStep = stepNextOrFinish -> handleNextFinishInput(st, q, input)
            [] OTHER -> [st |-> st, result |-> NoResult, err |-> "unknown step"]

\* No input has been handled yet.
NoAnswer ==
  [input |-> [source |-> "", text |-> <<>>, callbackData |-> <<>>],
   result |-> NoResult, err |-> "nil"]

\* ------------------------------------------------- the strategy registry
\* strings.ToLower over the letters of the model's names.
ToLower(name) ==
  [i \in 1..Len(name) |-> IF name[i] = "A" THEN "a" ELSE name[i]]

\* A normalization that keeps the case of the name.
normalize_keepsCase(name) == TrimSpace(name)

\* normalize: the name lowercased, then trimmed.
normalize(name) == TrimSpace(ToLower(name))

\* The value a lookup returns when nothing is registered under the name.
Missing == 0

\* Get on the registry reg: the strategy under the normalized name, nil when
\* there is none.
Get(reg, name) ==
  IF normalize(name) \in DOMAIN reg THEN reg[normalize(name)] ELSE Missing

\* ------------------------------------------------- answer progression
\* processAnswer that takes the refused self-transition for a failure of the
\* engine.
processAnswer_noReentry(st, messageID, oc) ==
  LET sectionID == st.currentSection
      qIndex == st.currentQuestion
  IN IF sectionID \notin DOMAIN Sections
        \/ qIndex < 0 \/ qIndex >= Len(Sections[sectionID].questions)
     THEN Event(st, EventForceExit, UserID, messageID, oc).st
     ELSE
       LET more == qIndex + 1 < Len(Sections[sectionID].questions)
           st1 == IF more
                  THEN [st EXCEPT !.currentQuestion = qIndex + 1]
                  ELSE [st EXCEPT !.currentQuestion = 0, !.currentSection = <<>>]
           nextEvent == IF more THEN EventAnswerQuestion ELSE EventSectionComplete
           fired == Event(st1, nextEvent, UserID, messageID, oc)
       IN IF fired.err = "nil" THEN fired.st
          ELSE SendMessage(fired.st, UserID, "internal_fsm_error", "-")

\* processAnswer that leaves the section set when the section is complete.
processAnswer_keepsSection(st, messageID, oc) ==
  LET sectionID == st.currentSection
      qIndex == st.currentQuestion
  IN IF sectionID \notin DOMAIN Sections
        \/ qIndex < 0 \/ qIndex >= Len(Sections[sectionID].questions)
     THEN Event(st, EventForceExit, UserID, messageID, oc).st
     ELSE
       LET more == qIndex + 1 < Len(Sections[sectionID].questions)
           st1 == IF more
                  THEN [st EXCEPT !.currentQuestion = qIndex + 1]
                  ELSE [st EXCEPT !.currentQuestion = 0]
           nextEvent == IF more THEN EventAnswerQuestion ELSE EventSectionComplete
           fired == Event(st1, nextEvent, UserID, messageID, oc)
       IN IF fired.err = "nil" THEN fired.st
          ELSE IF isNoTransitionError(fired.err)
          THEN askCurrentQuestion(fired.st, messageID, oc)
          ELSE SendMessage(fired.st, UserID, "internal_fsm_error", "-")

processAnswer(st, messageID, oc) ==
  LET sectionID == st.currentSection
      qIndex == st.currentQuestion
  IN IF sectionID \notin DOMAIN Sections
        \/ qIndex < 0 \/ qIndex >= Len(Sections[sectionID].questions)
     THEN Event(st, EventForceExit, UserID, messageID, oc).st
     ELSE
       LET more == qIndex + 1 < Len(Sections[sectionID].questions)
           st1 == IF more
                  THEN [st EXCEPT !.currentQuestion = qIndex + 1]
                  ELSE [st EXCEPT !.currentQuestion = 0, !.currentSection = <<>>]
           nextEvent == IF more THEN EventAnswerQuestion ELSE EventSectionComplete
           fired == Event(st1, nextEvent, UserID, messageID, oc)
       IN IF fired.err = "nil" THEN fired.st
          ELSE IF isNoTransitionError(fired.err)
          THEN askCurrentQuestion(fired.st, messageID, oc)
          ELSE SendMessage(fired.st, UserID, "internal_fsm_error", "-")

\* processAnswer on the engine that performs the self-transition: the event
\* returns no error and the enter callback has asked the question.
processAnswerPerformed(st, messageID, oc) ==
  LET sectionID == st.currentSection
      qIndex == st.currentQuestion
  IN IF sectionID \notin DOMAIN Sections
        \/ qIndex < 0 \/ qIndex >= Len(Sections[sectionID].questions)
     THEN EventPerformed(st, EventForceExit, UserID, messageID, oc).st
     ELSE
       LET more == qIndex + 1 < Len(Sections[sectionID].questions)
           st1 == IF more
                  THEN [st EXCEPT !.currentQuestion = qIndex + 1]
                  ELSE [st EXCEPT !.currentQuestion = 0, !.currentSection = <<>>]
           nextEvent == IF more THEN EventAnswerQuestion ELSE EventSectionComplete
           fired == EventPerformed(st1, nextEvent, UserID, messageID, oc)
       IN IF fired.err = "nil" THEN fired.st
          ELSE IF isNoTransitionError(fired.err)
          THEN askCurrentQuestion(fired.st, messageID, oc)
          ELSE SendMessage(fired.st, UserID, "internal_fsm_error", "-")

\* handleAnswerResult that sends the feedback after the re-render.
handleAnswerResult_feedbackLast(st, result, messageID, oc) ==
  LET next == IF result.repeat /\ ~result.advance
              THEN askCurrentQuestion(st, messageID, oc)
              ELSE IF result.advance
              THEN processAnswer(st, messageID, oc)
              ELSE st
  IN IF result.feedback # ""
     THEN SendMessage(next, UserID, result.feedback, "-")
     ELSE next

handleAnswerResult(st, result, messageID, oc) ==
  LET st1 == IF result.feedback # ""
             THEN SendMessage(st, UserID, result.feedback, "-")
             ELSE st
  IN IF result.repeat /\ ~result.advance
     THEN askCurrentQuestion(st1, messageID, oc)
     ELSE IF result.advance
     THEN processAnswer(st1, messageID, oc)
     ELSE st1

\* ------------------------------------------------- the forward pipeline
Max(S) == CHOOSE m \in S : \A x \in S : x <= m

\* A selection that prefers the draft to the saved records.
selectRecordForForward_draftFirst(st) ==
  LET savedIdx == { i \in 1..Len(st.records) : st.records[i].saved }
  IN IF st.draft # None THEN st.draft
     ELSE IF savedIdx # {} THEN st.records[Max(savedIdx)] ELSE None

selectRecordForForward(st) ==
  LET savedIdx == { i \in 1..Len(st.records) : st.records[i].saved }
  IN IF savedIdx # {} THEN st.records[Max(savedIdx)] ELSE st.draft

clearUserAnswers(st, forwarded) ==
  [st EXCEPT
     !.records = SelectSeq(@, LAMBDA r : r.rid # forwarded.rid),
     !.draft = IF @ # None /\ @.rid = forwarded.rid THEN None ELSE @,
     !.currentSection = <<>>,
     !.currentQuestion = 0,
     !.lastMessageID = 0,
     !.lastPrompt = NoMessage]

\* A forward that does not look at the target id before it sends.
forwardWithTarget_anyTarget(st, chatID, target, clearOnSuccess, requireConfigured, okText, oc) ==
  LET record == selectRecordForForward(st)
      o == SendOutcome(oc)
  IN IF record = None
     THEN SendMessage(st, chatID, "nothing_to_send", "-")
     ELSE
       LET sent == SendForward(st, target, record.rid, o.res)
       IN IF o.res # "ok"
          THEN SendMessage(sent, chatID, "forward_failed", "-")
          ELSE SendMessage(IF clearOnSuccess THEN clearUserAnswers(sent, record) ELSE sent,
                           chatID, okText, "-")

\* A forward that clears the answers whatever the send returned.
forwardWithTarget_clearsAlways(st, chatID, target, clearOnSuccess, requireConfigured, okText, oc) ==
  LET record == selectRecordForForward(st)
      o == SendOutcome(oc)
  IN IF record = None
     THEN SendMessage(st, chatID, "nothing_to_send", "-")
     ELSE IF requireConfigured /\ target = 0
     THEN SendMessage(st, chatID, "target_not_configured", "-")
     ELSE
       LET sent == clearUserAnswers(SendForward(st, target, record.rid, o.res), record)
       IN IF o.res # "ok"
          THEN SendMessage(sent, chatID, "forward_failed", "-")
          ELSE SendMessage(sent, chatID, okText, "-")

forwardWithTarget(st, chatID, target, clearOnSuccess, requireConfigured, okText, oc) ==
  LET record == selectRecordForForward(st)
      o == SendOutcome(oc)
  IN IF record = None
     THEN SendMessage(st, chatID, "nothing_to_send", "-")
     ELSE IF requireConfigured /\ target = 0
     THEN SendMessage(st, chatID, "target_not_configured", "-")
     ELSE
       LET sent == SendForward(st, target, record.rid, o.res)
       IN IF o.res # "ok"
          THEN SendMessage(sent, chatID, "forward_failed", "-")
          ELSE SendMessage(IF clearOnSuccess THEN clearUserAnswers(sent, record) ELSE sent,
                           chatID, okText, "-")

handleForwardToTarget(st, chatID, target, clearOnSuccess, oc) ==
  forwardWithTarget(st, chatID, target, clearOnSuccess, TRUE, "sent_to_target", oc)

handleForwardAnsweredSections(st, chatID, target, oc) ==
  handleForwardToTarget(st, chatID, target, FALSE, oc)

\* A self-forward that clears on success as the reviewer-forward is meant to.
handleForwardToSelf_clears(st, chatID, oc) ==
  forwardWithTarget(st, chatID, chatID, TRUE, FALSE, "sent_to_self", oc)

handleForwardToSelf(st, chatID, oc) ==
  forwardWithTarget(st, chatID, chatID, FALSE, FALSE, "sent_to_self", oc)

\* -------------------------------------------------- the forward message
noAnswerPlaceholder == <<"no_answer">>

\* Ticks of the wall clock in a minute.
TicksPerMinute == 2

\* Time.Format("02.01.2006 15:04"): the time to the minute.
FormatMinute(t) == t \div TicksPerMinute

\* sort.Strings of the section ids: upper case sorts before lower case.
SortedSectionIDs == << <<"Personal">>, <<"a">>, <<"e">>, <<"p">> >>

\* The questions of a section with the record's answers, no_answer for a
\* question without one.
forwardQuestions(qs, data) ==
  [i \in 1..Len(qs) |->
     [Prompt |-> qs[i].prompt,
      Answer |-> IF DataGet(data, qs[i].storeKey) = <<>>
                 THEN noAnswerPlaceholder
                 ELSE DataGet(data, qs[i].storeKey)]]

\* buildForwardPayload at the time now: a record without a creation time
\* is dated with the current time.
buildForwardPayload(record, userID, now) ==
  LET created == IF record.createdAt = 0 THEN now ELSE record.createdAt
  IN [UserID |-> userID,
      CreatedAt |-> FormatMinute(created),
      Sections |-> [i \in 1..Len(SortedSectionIDs) |->
                      [Title |-> Sections[SortedSectionIDs[i]].title,
                       Questions |-> forwardQuestions(
                                       Sections[SortedSectionIDs[i]].questions,
                                       record.data)]]]

\* forwardTpl executed on the payload: the header with the user, the date
\* line, then each section's title and its prompt and answer lines.
RECURSIVE questionLines(_)
questionLines(qs) ==
  IF qs = <<>> THEN <<>>
  ELSE << "- ", Head(qs).Prompt, ":\n  ", Head(qs).Answer, "\n" >>
         \o questionLines(Tail(qs))

RECURSIVE sectionLines(_)
sectionLines(secs) ==
  IF secs = <<>> THEN <<>>
  ELSE << "## ", Head(secs).Title, "\n" >> \o questionLines(Head(secs).Questions)
         \o << "\n" >> \o sectionLines(Tail(secs))

renderForwardMessage(payload) ==
  << "user_answers", payload.UserID, "\n", "record_date", payload.CreatedAt, "\n" >>
    \o sectionLines(payload.Sections)

\* ------------------------------------------------------ the dispatcher
viewLastRecordHandler(st, chatID) ==
  IF \E i \in 1..Len(st.records) : st.records[i].saved
  THEN SendMessage(st, chatID, "last_record", "-")
  ELSE SendMessage(st, chatID, "no_saved_records", "-")

handleShareLastRecord(st, chatID) ==
  IF \E i \in 1..Len(st.records) : st.records[i].saved
  THEN SendMessage(st, chatID, "share_text", "-")
  ELSE SendMessage(st, chatID, "no_saved_records_to_share", "-")

viewListHandler(st, chatID, messageID) ==
  LET total == Cardinality({ i \in 1..Len(st.records) : st.records[i].saved })
      text == IF total = 0 THEN "no_saved_records" ELSE "record_list"
      shown == IF messageID # 0
               THEN EditMessage(st, chatID, messageID, text, "-")
               ELSE SendMessage(st, chatID, text, "-")
  IN IF total = 0 /\ st.mainFSM = StateViewingList
     THEN [shown EXCEPT !.mainFSM = StateIdle]
     ELSE shown

\* startOrResumeRecordCreation that opens a new draft every time.
startOrResumeRecordCreation_alwaysNew(st, chatID, oc) ==
  LET st2 == [st EXCEPT !.draft = NewRecord(st.records),
                        !.currentSection = <<>>, !.currentQuestion = 0]
      fired == Event(st2, EventStartRecord, chatID, 0, oc)
  IN IF fired.err = "nil" THEN fired.st
     ELSE [SendMessage(fired.st, chatID, "cannot_start_record", "-")
             EXCEPT !.recordFSM = StateRecordIdle]

startOrResumeRecordCreation(st, chatID, oc) ==
  LET st1 == IF st.draft = None
             THEN [st EXCEPT !.draft = NewRecord(st.records)]
             ELSE st
      st2 == [st1 EXCEPT !.currentSection = <<>>, !.currentQuestion = 0]
      fired == Event(st2, EventStartRecord, chatID, 0, oc)
  IN IF fired.err = "nil" THEN fired.st
     ELSE [SendMessage(fired.st, chatID, "cannot_start_record", "-")
             EXCEPT !.recordFSM = StateRecordIdle]

hideKeyboard(st, chatID) == SendMessage(st, chatID, "hide_keyboard", "-")

\* Shows the section menu in place (send when no message is known, edit
\* otherwise) and keeps the returned handle.
showSectionSelectionMenu(st, chatID, messageID, oc) ==
  LET o == IF messageID # 0 THEN oc ELSE SendOutcome(oc)
      called == IF messageID # 0
                THEN EditMessage(st, chatID, messageID, "section_menu", o.res)
                ELSE SendMessage(st, chatID, "section_menu", o.res)
      sentMid == IF o.res = "ok"
                 THEN (IF messageID # 0 THEN messageID ELSE o.id)
                 ELSE messageID
  IN IF o.res # "ok" /\ ~IsCodeNotModified(o)
     THEN Event(called, EventForceExit, chatID, 0, oc).st
     ELSE [called EXCEPT
             !.lastMessageID = sentMid,
             !.lastPrompt = [chat |-> chatID, mid |-> sentMid, transport |-> "telegram"]]

\* resetCurrentRecord that drops the draft and opens no new one.
resetCurrentRecord_noDraft(st, chatID, messageID, oc) ==
  showSectionSelectionMenu(
    [st EXCEPT !.draft = None,
               !.currentSection = <<>>, !.currentQuestion = 0],
    chatID, messageID, oc)

resetCurrentRecord(st, chatID, messageID, oc) ==
  showSectionSelectionMenu(
    [st EXCEPT !.draft = NewRecord(st.records),
               !.currentSection = <<>>, !.currentQuestion = 0],
    chatID, messageID, oc)

\* resolveCurrentQuestion reports an error exactly when this is FALSE.
CurrentQuestionValid(st) ==
  /\ st.currentSection \in DOMAIN Sections
  /\ st.currentQuestion >= 0
  /\ st.currentQuestion < Len(Sections[st.currentSection].questions)

\* A lookup that ignores the question index.
CurrentQuestionOf_first(st) == Sections[st.currentSection].questions[1]

CurrentQuestionOf(st) == Sections[st.currentSection].questions[st.currentQuestion + 1]

handleMessage(st, message, target, oc) ==
  LET chatID == UserID
      text == message.payload
  IN IF message.kind = "command"
     THEN IF text = <<"start">>
          THEN IF st.recordFSM # StateRecordIdle
               THEN LET fired == Event(st, EventForceExit, chatID, st.lastMessageID, oc)
                    IN IF fired.err = "nil" THEN fired.st
                       ELSE sendMainMenu([fired.st EXCEPT
                                            !.recordFSM = StateRecordIdle,
                                            !.currentSection = <<>>,
                                            !.currentQuestion = 0,
                                            !.lastMessageID = 0])
               ELSE sendMainMenu(st)
          ELSE SendMessage(st, chatID, "unknown_command", "-")
     ELSE IF st.recordFSM = StateAnsweringQuestion
     THEN IF ~CurrentQuestionValid(st)
          THEN Event(st, EventForceExit, chatID, st.lastMessageID, oc).st
          ELSE IF CurrentQuestionOf(st).type \notin Registered
          THEN Event(st, EventForceExit, chatID, st.lastMessageID, oc).st
          ELSE
            LET answered == HandleAnswer(st, CurrentQuestionOf(st),
                              [source |-> "text", text |-> text, callbackData |-> <<>>])
            IN IF answered.err # "nil"
               THEN Event(answered.st, EventForceExit, chatID, st.lastMessageID, oc).st
               ELSE handleAnswerResult(answered.st, answered.result, st.lastMessageID, oc)
     ELSE IF st.mainFSM = StateIdle /\ st.recordFSM = StateRecordIdle
     THEN CASE text = ButtonMainMenuFillRecord ->
                 hideKeyboard(startOrResumeRecordCreation(st, chatID, oc), chatID)
            [] text = ButtonMainMenuShowRecord -> viewLastRecordHandler(st, chatID)
            [] text = ButtonMainMenuSendSelf -> handleForwardToSelf(st, chatID, oc)
            [] text = ButtonMainMenuSendTherapist ->
                 handleForwardAnsweredSections(st, chatID, target, oc)
            [] OTHER -> st
     ELSE SendMessage(st, chatID, "use_the_offered_buttons", "-")

\* A callback handler that takes a section callback in any state.
handleCallbackQuery_sectionAnywhere(st0, query, oc) ==
  LET chatID == UserID
      messageID == query.mid
      st == AnswerCallback(st0, query.id, "")
      parts == SplitN2(query.payload)
      prefix == parts[1] \o <<":">>
      value == IF Len(parts) > 1 THEN parts[2] ELSE <<>>
      recordState == st.recordFSM
      mainState == st.mainFSM
  IN CASE prefix = CallbackAnswerPrefix ->
            IF recordState # StateAnsweringQuestion THEN st
            ELSE
              LET answerParts == SplitN2(value)
                  currentQID == IF CurrentQuestionValid(st)
                                THEN CurrentQuestionOf(st).id ELSE <<>>
              IN IF Len(answerParts) # 2 THEN st
                 ELSE IF currentQID # answerParts[1]
                 THEN AnswerCallback(st, query.id, "answer_to_previous_question")
                 ELSE IF CurrentQuestionOf(st).type \notin Registered
                 THEN Event(st, EventForceExit, chatID, messageID, oc).st
                 ELSE
                   LET answered == HandleAnswer(st, CurrentQuestionOf(st),
                                     [source |-> "callback", text |-> <<>>,
                                      callbackData |-> answerParts[2]])
                   IN IF answered.err # "nil"
                      THEN Event(answered.st, EventForceExit, chatID, messageID, oc).st
                      ELSE handleAnswerResult(answered.st, answered.result, messageID, oc)
       [] prefix = CallbackSectionPrefix ->
            IF FALSE THEN st
            ELSE
              LET fired == Event([st EXCEPT !.currentSection = value,
                                            !.currentQuestion = 0],
                                 EventSelectSection, chatID, messageID, oc)
              IN IF fired.err = "nil" THEN fired.st
                 ELSE Event(fired.st, EventForceExit, chatID, messageID, oc).st
       [] prefix = CallbackActionPrefix ->
            CASE value = ActionCancelSection ->
                   IF recordState = StateAnsweringQuestion
                   THEN Event(st, EventCancelSection, chatID, messageID, oc).st
                   ELSE st
              [] value = ActionSaveRecord ->
                   IF recordState = StateSelectingSection
                   THEN Event(st, EventSaveFullRecord, chatID, messageID, oc).st
                   ELSE st
              [] value = ActionNewRecord ->
                   IF recordState = StateSelectingSection
                   THEN resetCurrentRecord(st, chatID, messageID, oc)
                   ELSE st
              [] value = ActionExitMenu ->
                   IF recordState = StateSelectingSection
                   THEN Event(st, EventExitToMainMenu, chatID, messageID, oc).st
                   ELSE st
              [] value = ActionShareLast -> handleShareLastRecord(st, chatID)
              [] OTHER -> st
       [] prefix = CallbackListNavPrefix ->
            IF mainState # StateViewingList
            THEN AnswerCallback(st, query.id, "action_unavailable")
            ELSE CASE value = <<"next">> ->
                        viewListHandler([st EXCEPT !.listOffset = @ + 5], chatID, messageID)
                   [] value = <<"back">> ->
                        viewListHandler([st EXCEPT !.listOffset =
                                           IF @ - 5 < 0 THEN 0 ELSE @ - 5],
                                        chatID, messageID)
                   [] value = <<"tomenu">> ->
                        sendMainMenu(EditMessage([st EXCEPT !.mainFSM = StateIdle],
                                                 chatID, messageID, "list_closed", "-"))
                   [] OTHER -> st
       [] OTHER -> st

handleCallbackQuery(st0, query, oc) ==
  LET chatID == UserID
      messageID == query.mid
      st == AnswerCallback(st0, query.id, "")
      parts == SplitN2(query.payload)
      prefix == parts[1] \o <<":">>
      value == IF Len(parts) > 1 THEN parts[2] ELSE <<>>
      recordState == st.recordFSM
      mainState == st.mainFSM
  IN CASE prefix = CallbackAnswerPrefix ->
            IF recordState # StateAnsweringQuestion THEN st
            ELSE
              LET answerParts == SplitN2(value)
                  currentQID == IF CurrentQuestionValid(st)
                                THEN CurrentQuestionOf(st).id ELSE <<>>
              IN IF Len(answerParts) # 2 THEN st
                 ELSE IF currentQID # answerParts[1]
                 THEN AnswerCallback(st, query.id, "answer_to_previous_question")
                 ELSE IF CurrentQuestionOf(st).type \notin Registered
                 THEN Event(st, EventForceExit, chatID, messageID, oc).st
                 ELSE
                   LET answered == HandleAnswer(st, CurrentQuestionOf(st),
                                     [source |-> "callback", text |-> <<>>,
                                      callbackData |-> answerParts[2]])
                   IN IF answered.err # "nil"
                      THEN Event(answered.st, EventForceExit, chatID, messageID, oc).st
                      ELSE handleAnswerResult(answered.st, answered.result, messageID, oc)
       [] prefix = CallbackSectionPrefix ->
            IF recordState # StateSelectingSection THEN st
            ELSE
              LET fired == Event([st EXCEPT !.currentSection = value,
                                            !.currentQuestion = 0],
                                 EventSelectSection, chatID, messageID, oc)
              IN IF fired.err = "nil" THEN fired.st
                 ELSE Event(fired.st, EventForceExit, chatID, messageID, oc).st
       [] prefix = CallbackActionPrefix ->
            CASE value = ActionCancelSection ->
                   IF recordState = StateAnsweringQuestion
                   THEN Event(st, EventCancelSection, chatID, messageID, oc).st
                   ELSE st
              [] value = ActionSaveRecord ->
                   IF recordState = StateSelectingSection
                   THEN Event(st, EventSaveFullRecord, chatID, messageID, oc).st
                   ELSE st
              [] value = ActionNewRecord ->
                   IF recordState = StateSelectingSection
                   THEN resetCurrentRecord(st, chatID, messageID, oc)
                   ELSE st
              [] value = ActionExitMenu ->
                   IF recordState = StateSelectingSection
                   THEN Event(st, EventExitToMainMenu, chatID, messageID, oc).st
                   ELSE st
              [] value = ActionShareLast -> handleShareLastRecord(st, chatID)
              [] OTHER -> st
       [] prefix = CallbackListNavPrefix ->
            IF mainState # StateViewingList
            THEN AnswerCallback(st, query.id, "action_unavailable")
            ELSE CASE value = <<"next">> ->
                        viewListHandler([st EXCEPT !.listOffset = @ + 5], chatID, messageID)
                   [] value = <<"back">> ->
                        viewListHandler([st EXCEPT !.listOffset =
                                           IF @ - 5 < 0 THEN 0 ELSE @ - 5],
                                        chatID, messageID)
                   [] value = <<"tomenu">> ->
                        sendMainMenu(EditMessage([st EXCEPT !.mainFSM = StateIdle],
                                                 chatID, messageID, "list_closed", "-"))
                   [] OTHER -> st
       [] OTHER -> st

\* HandleUpdate: the user state exists (GetOrCreateUserState made it), its
\* mutex is held from here to the return.
HandleUpdate(st, update, target, oc) ==
  IF update.kind = "callback"
  THEN handleCallbackQuery(st, update, oc)
  ELSE handleMessage(st, update, target, oc)

\* ------------------------------------------------------------- updates
Commands == { <<"start">> }

Texts ==
  { ButtonMainMenuFillRecord, ButtonMainMenuSendSelf, ButtonMainMenuSendTherapist,
    <<" ">> \o ButtonMainMenuSendSelf \o <<" ">>, <<" ">> }

CallbackData ==
  { <<"answer", ":", "q1", ":", "tb">>, <<"answer", ":", "q1", ":", "zz">>,
    <<"answer", ":", "q2", ":", "tb">>, <<"answer", ":", "q1">>,
    <<"section", ":", "a">>, <<"section", ":", "e">>, <<"section", ":", "zz">>,
    <<"action", ":", "save_record">>, <<"action", ":", "cancel_section">>,
    <<"action", ":", "new_record">>, <<"action", ":", "exit_menu">>,
    <<"action", ":", "bogus">>, <<"list_nav", ":", "tomenu">>, <<"bogus">> }

CommandUpdates == { [kind |-> "command", payload |-> c, mid |-> 0] : c \in Commands }

TextUpdates == { [kind |-> "text", payload |-> t, mid |-> 0] : t \in Texts }

CallbackUpdates ==
  { [kind |-> "callback", id |-> "cb1", payload |-> d, mid |-> m] : d \in CallbackData, m \in MsgIDs }

Updates == CommandUpdates \cup TextUpdates \cup CallbackUpdates

\* ------------------------------------------------------- specification
\* The components outside the dispatcher before anything has used them.
RatingIdle ==
  /\ ratingQuestion = NoQuestion
  /\ validated = "unchecked"
  /\ lastAnswer = NoAnswer

\* The registry as the SpecRegistry runs start with it: empty.
RegistryIdle ==
  /\ registry = EmptyData
  /\ attempts = <<>>
  /\ panicked = FALSE

\* No forward message is being built.
ForwardIdle ==
  /\ wallClock = 0
  /\ forwardRecord = None
  /\ rendered = <<>>

\* The participant's state exists under the first of their names and its
\* mutex is free.
LocksIdle ==
  /\ userName = "n1"
  /\ userMu = 0

\* No section menu has been built.
MenuIdle ==
  /\ menuRows = <<>>
  /\ menuBefore = <<>>

\* The participants of the store runs: the participant and the reviewer, who
\* uses the bot as well.
ParticipantIDs == {UserID, TargetID}

\* The user states one participant id can get: one in the code, as many as
\* this when the store hands out more.
MaxInstances == 2

\* A user state's identity (the pointer in the code): the id it was made for
\* and the number of the factory call that made it.
Instances == ParticipantIDs \X (1..MaxInstances)
NoInstance == << 0, 0 >>

Goroutines == 1..MaxGoroutines

\* A goroutine of the main loop that has no update to handle.
IdleGoroutine ==
  [pc |-> "idle", id |-> 0, name |-> "", ret |-> NoInstance, forwardedTo |-> {}]

\* store.NewStore: no user state, every mutex free, no goroutine started.
StoreIdle ==
  /\ storeMu = 0
  /\ users = [i \in {} |-> NoInstance]
  /\ heap = [i \in {} |-> None]
  /\ goroutines = [g \in Goroutines |-> IdleGoroutine]
  /\ returnedFor = [i \in ParticipantIDs |-> {}]

InitParts ==
  RatingIdle /\ RegistryIdle /\ ForwardIdle /\ LocksIdle /\ MenuIdle /\ StoreIdle

\* A user state as GetOrCreateUserState creates it, and no update yet.
InitUser ==
  /\ records = <<>>
  /\ draft = None
  /\ recordFSM = StateRecordIdle
  /\ mainFSM = StateIdle
  /\ currentSection = <<>>
  /\ currentQuestion = 0
  /\ lastMessageID = 0
  /\ lastPrompt = NoMessage
  /\ listOffset = 0
  /\ calls = <<>>
  /\ arrivals = 0
  /\ tasks = {}
  /\ handled = <<>>
  /\ script = 0

\* TARGET_USER_ID names the reviewer.
InitEngine == InitUser /\ targetUserID = TargetID

Init == InitEngine /\ InitParts

\* The port outcomes that matter to a dispatch: every outcome when the
\* dispatch makes a port call whose result the code looks at (res is not
\* "-"), one otherwise.  The code path up to the first such call does not
\* depend on the outcome, so the run under DefaultOutcome tells.
DefaultOutcome == [res |-> "ok", id |-> 1]

Consults(st) == \E i \in 1..Len(st.calls) : st.calls[i].res # "-"

Results(update) ==
  LET base == HandleUpdate(US, update, targetUserID, DefaultOutcome)
  IN IF Consults(base)
     THEN { HandleUpdate(US, update, targetUserID, oc) : oc \in Outcomes }
     ELSE { base }

\* One dispatch of HandleUpdate for the update.
Dispatch(update) ==
  \E st \in Results(update) :
     /\ Len(st.records) <= MaxRecords
     /\ records' = st.records
     /\ draft' = st.draft
     /\ recordFSM' = st.recordFSM
     /\ mainFSM' = st.mainFSM
     /\ currentSection' = st.currentSection
     /\ currentQuestion' = st.currentQuestion
     /\ lastMessageID' = st.lastMessageID
     /\ lastPrompt' = st.lastPrompt
     /\ listOffset' = st.listOffset
     /\ calls' = st.calls
     /\ UNCHANGED << targetUserID, arrivals, tasks, handled, script, partVars >>

DispatchCommand == \E u \in CommandUpdates : Dispatch(u)

DispatchText == \E u \in TextUpdates : Dispatch(u)

DispatchCallback == \E u \in CallbackUpdates : Dispatch(u)

Next == DispatchCommand \/ DispatchText \/ DispatchCallback

Spec == Init /\ [][Next]_vars

\* The engine started without TARGET_USER_ID: GetTargetUserID returns 0.
InitNoTarget == InitUser /\ targetUserID = 0 /\ InitParts

SpecNoTarget == InitNoTarget /\ [][Next]_vars

\* The callbacks that open the section of the custom question and answer it.
PluginCallbacks ==
  { [kind |-> "callback", id |-> "cb1", payload |-> d, mid |-> m] :
      d \in { <<"section", ":", "p">>, <<"answer", ":", "q9", ":", "x">> },
      m \in MsgIDs }

DispatchPlugin == \E u \in PluginCallbacks : Dispatch(u)

NextPlugin == DispatchCommand \/ DispatchText \/ DispatchCallback \/ DispatchPlugin

\* The engine with a schema whose section "p" is reachable: its question is
\* served by the custom strategy.
SpecPlugin == Init /\ [][NextPlugin]_vars

\* ------------------------------------------------- the per-update tasks
\* The updates the participant sends in SpecTasks.
TaskUpdates ==
  { [kind |-> "command", payload |-> <<"start">>, mid |-> 0],
    [kind |-> "text", payload |-> ButtonMainMenuFillRecord, mid |-> 0],
    [kind |-> "callback", id |-> "cb1", payload |-> <<"section", ":", "a">>, mid |-> 1],
    [kind |-> "callback", id |-> "cb1", payload |-> <<"answer", ":", "q1", ":", "tb">>, mid |-> 1] }

\* The main loop takes the next update from the channel and starts a
\* goroutine running HandleUpdate for it.
ReceiveUpdate ==
  \E u \in TaskUpdates :
     /\ arrivals < MaxTasks
     /\ arrivals' = arrivals + 1
     /\ tasks' = tasks \cup { [seq |-> arrivals + 1, update |-> u] }
     /\ UNCHANGED << records, draft, recordFSM, mainFSM, currentSection,
                     currentQuestion, lastMessageID, lastPrompt, listOffset,
                     targetUserID, calls, handled, script, partVars >>

\* One of the started goroutines gets the participant's mutex (the runtime
\* picks which), handles its update and releases the mutex.
RunHandleUpdate ==
  \E t \in tasks : \E st \in Results(t.update) :
     /\ Len(st.records) <= MaxRecords
     /\ records' = st.records
     /\ draft' = st.draft
     /\ recordFSM' = st.recordFSM
     /\ mainFSM' = st.mainFSM
     /\ currentSection' = st.currentSection
     /\ currentQuestion' = st.currentQuestion
     /\ lastMessageID' = st.lastMessageID
     /\ lastPrompt' = st.lastPrompt
     /\ listOffset' = st.listOffset
     /\ calls' = st.calls
     /\ tasks' = tasks \ {t}
     /\ handled' = Append(handled, t.seq)
     /\ UNCHANGED << targetUserID, arrivals, script, partVars >>

NextTasks == ReceiveUpdate \/ RunHandleUpdate

\* The main loop with one goroutine per update.
SpecTasks == Init /\ [][NextTasks]_vars

\* ------------------------------------------------ the participant's mutex
\* The names the participant's updates come with (first and last name).
UserNames == {"n1", "n2"}

\* The main loop starts a goroutine running HandleUpdate for the next
\* update, which carries the participant's name of the moment.
StartHandleUpdate ==
  \E u \in TaskUpdates : \E name \in UserNames :
     /\ arrivals < MaxGoroutines
     /\ arrivals' = arrivals + 1
     /\ tasks' = tasks \cup { [seq |-> arrivals + 1, update |-> u,
                                name |-> name, pc |-> "start"] }
     /\ UNCHANGED << records, draft, recordFSM, mainFSM, currentSection,
                     currentQuestion, lastMessageID, lastPrompt, listOffset,
                     targetUserID, calls, handled, script,
                     ratingVars, registryVars, forwardVars, lockVars, menuVars, storeVars >>

\* Store.GetOrCreateUserState for the existing state, under the store's
\* mutex: the stored name is replaced when the update's name differs.
GetOrCreateUserState ==
  \E t \in { x \in tasks : x.pc = "start" } :
     /\ userName' = IF userName # t.name THEN t.name ELSE userName
     /\ tasks' = (tasks \ {t}) \cup { [t EXCEPT !.pc = "got"] }
     /\ UNCHANGED << records, draft, recordFSM, mainFSM, currentSection,
                     currentQuestion, lastMessageID, lastPrompt, listOffset,
                     targetUserID, calls, arrivals, handled, script,
                     ratingVars, registryVars, forwardVars, userMu, menuVars, storeVars >>

\* userState.Mu.Lock()
LockUser ==
  \E t \in { x \in tasks : x.pc = "got" } :
     /\ userMu = 0
     /\ userMu' = t.seq
     /\ tasks' = (tasks \ {t}) \cup { [t EXCEPT !.pc = "locked"] }
     /\ UNCHANGED << records, draft, recordFSM, mainFSM, currentSection,
                     currentQuestion, lastMessageID, lastPrompt, listOffset,
                     targetUserID, calls, arrivals, handled, script,
                     ratingVars, registryVars, forwardVars, userName, menuVars, storeVars >>

\* handleMessage or handleCallbackQuery for the goroutine's update, with
\* the participant's mutex held.
HandleLocked ==
  \E t \in { x \in tasks : x.pc = "locked" } : \E st \in Results(t.update) :
     /\ Len(st.records) <= MaxRecords
     /\ records' = st.records
     /\ draft' = st.draft
     /\ recordFSM' = st.recordFSM
     /\ mainFSM' = st.mainFSM
     /\ currentSection' = st.currentSection
     /\ currentQuestion' = st.currentQuestion
     /\ lastMessageID' = st.lastMessageID
     /\ lastPrompt' = st.lastPrompt
     /\ listOffset' = st.listOffset
     /\ calls' = st.calls
     /\ tasks' = (tasks \ {t}) \cup { [t EXCEPT !.pc = "handled"] }
     /\ UNCHANGED << targetUserID, arrivals, handled, script, partVars >>

\* The deferred userState.Mu.Unlock(): HandleUpdate returns.
UnlockUser ==
  \E t \in { x \in tasks : x.pc = "handled" } :
     /\ userMu' = 0
     /\ tasks' = tasks \ {t}
     /\ handled' = Append(handled, t.seq)
     /\ UNCHANGED << records, draft, recordFSM, mainFSM, currentSection,
                     currentQuestion, lastMessageID, lastPrompt, listOffset,
                     targetUserID, calls, arrivals, script,
                     ratingVars, registryVars, forwardVars, userName, menuVars, storeVars >>

NextLocks ==
  StartHandleUpdate \/ GetOrCreateUserState \/ LockUser \/ HandleLocked \/ UnlockUser

\* The main loop with one goroutine per update, step by step.
SpecLocks == Init /\ [][NextLocks]_vars

\* ------------------------------------------------------ the happy path
\* The updates of the happy-path scenario, in order: /start, the "fill
\* record" button, the section Personal, the name, the city, save.
HappyScript ==
  << [kind |-> "command", payload |-> <<"start">>, mid |-> 0],
     [kind |-> "text", payload |-> ButtonMainMenuFillRecord, mid |-> 0],
     [kind |-> "callback", id |-> "cb1", payload |-> <<"section", ":", "Personal">>, mid |-> 1],
     [kind |-> "text", payload |-> <<"Alice">>, mid |-> 0],
     [kind |-> "callback", id |-> "cb1", payload |-> <<"answer", ":", "q2", ":", "tb">>, mid |-> 1],
     [kind |-> "callback", id |-> "cb1", payload |-> <<"action", ":", "save_record">>, mid |-> 1] >>

\* The value script takes once the run is no longer the scenario.
OffScript == Len(HappyScript) + 1

\* Every port call of the dispatch whose result the code looks at succeeded.
PortSucceeded(st) ==
  \A i \in 1..Len(st.calls) : st.calls[i].res \in {"-", "ok"}

\* The participant sends the next update of the scenario; the run stays the
\* scenario as long as the port succeeds.
HappyStep ==
  /\ script < Len(HappyScript)
  /\ \E st \in Results(HappyScript[script + 1]) :
        /\ Len(st.records) <= MaxRecords
        /\ records' = st.records
        /\ draft' = st.draft
        /\ recordFSM' = st.recordFSM
        /\ mainFSM' = st.mainFSM
        /\ currentSection' = st.currentSection
        /\ currentQuestion' = st.currentQuestion
        /\ lastMessageID' = st.lastMessageID
        /\ lastPrompt' = st.lastPrompt
        /\ listOffset' = st.listOffset
        /\ calls' = st.calls
        /\ script' = IF PortSucceeded(st) THEN script + 1 ELSE OffScript
  /\ UNCHANGED << targetUserID, arrivals, tasks, handled, partVars >>

\* The participant sends some other update: the run leaves the scenario.
HappyDeviate ==
  /\ \E u \in TaskUpdates : \E st \in Results(u) :
        /\ Len(st.records) <= MaxRecords
        /\ records' = st.records
        /\ draft' = st.draft
        /\ recordFSM' = st.recordFSM
        /\ mainFSM' = st.mainFSM
        /\ currentSection' = st.currentSection
        /\ currentQuestion' = st.currentQuestion
        /\ lastMessageID' = st.lastMessageID
        /\ lastPrompt' = st.lastPrompt
        /\ listOffset' = st.listOffset
        /\ calls' = st.calls
  /\ script' = OffScript
  /\ UNCHANGED << targetUserID, arrivals, tasks, handled, partVars >>

NextHappy == HappyStep \/ HappyDeviate

\* The engine driven through the happy-path scenario and away from it.
SpecHappy == Init /\ [][NextHappy]_vars

\* -------------------------------------------- the text_rating question
\* The values rating_min and rating_max take in the loaded schema.
RatingSettings == {-1, 0, 1, 2, 11, 20, 21}

RatingQuestions ==
  { [id |-> "r1", storeKey |-> "log", options |-> <<>>,
     ratingMin |-> lo, ratingMax |-> hi] : lo, hi \in RatingSettings }

\* What the participant sends while the question is current.
RatingInputs ==
  { [source |-> "text", text |-> t, callbackData |-> <<>>] :
      t \in { <<"x">>, <<" ", "y", " ">>, <<" ">> } }
  \cup
  { [source |-> "callback", text |-> <<>>, callbackData |-> d] :
      d \in { <<"1">>, <<"11">>, <<"2x">>, <<"x">>, <<"next">>, <<"finish">> } }

\* The entries stored under the question's storage key.
EntryCount(rec) ==
  LET v == DataGet(rec.data, ratingQuestion.storeKey)
  IN IF v = <<>> THEN 0
     ELSE 1 + Cardinality({ i \in 1..Len(v) : v[i] = "\n" })

\* The schema is loaded with a text_rating question and a draft is open.
InitRating ==
  /\ records = <<>>
  /\ draft = NewRecord(<<>>)
  /\ recordFSM = StateAnsweringQuestion
  /\ mainFSM = StateIdle
  /\ currentSection = <<>>
  /\ currentQuestion = 0
  /\ lastMessageID = 0
  /\ lastPrompt = NoMessage
  /\ listOffset = 0
  /\ targetUserID = TargetID
  /\ calls = <<>>
  /\ arrivals = 0
  /\ tasks = {}
  /\ handled = <<>>
  /\ script = 0
  /\ ratingQuestion \in RatingQuestions
  /\ validated = "unchecked"
  /\ lastAnswer = NoAnswer
  /\ RegistryIdle
  /\ ForwardIdle
  /\ LocksIdle /\ MenuIdle /\ StoreIdle

\* RecordConfig.Validate hands the question to the strategy's validator.
ValidateQuestion ==
  /\ validated = "unchecked"
  /\ validated' = IF ratingValidate(ratingQuestion) = "nil" THEN "ok" ELSE "rejected"
  /\ UNCHANGED << engineVars, ratingQuestion, lastAnswer, registryVars, forwardVars, lockVars, menuVars, storeVars >>

\* The strategy handles one input for the question of the accepted schema.
AnswerRating ==
  /\ validated = "ok"
  /\ EntryCount(draft) < MaxEntries
  /\ \E input \in RatingInputs :
       LET handledAnswer == ratingHandleAnswer(US, ratingQuestion, input)
       IN /\ draft' = handledAnswer.st.draft
          /\ lastAnswer' = [input |-> input, result |-> handledAnswer.result,
                            err |-> handledAnswer.err]
  /\ UNCHANGED << records, recordFSM, mainFSM, currentSection,
                  currentQuestion, lastMessageID, lastPrompt, listOffset,
                  targetUserID, calls, arrivals, tasks, handled, script,
                  ratingQuestion, validated, registryVars, forwardVars, lockVars, menuVars, storeVars >>

NextRating == ValidateQuestion \/ AnswerRating

SpecRating == InitRating /\ [][NextRating]_vars

\* The ways out of the question: back to the section menu, and from there
\* save or exit.
LeaveUpdates ==
  { [kind |-> "callback", id |-> "cb1",
     payload |-> CallbackActionPrefix \o a, mid |-> m] :
       a \in {ActionCancelSection, ActionSaveRecord, ActionExitMenu},
       m \in MsgIDs }

\* The strategy handles an input while the question is being answered.
AnswerRatingQuestion ==
  /\ recordFSM = StateAnsweringQuestion
  /\ AnswerRating

\* The participant leaves the question, at whatever step it is.
LeaveRatingQuestion ==
  /\ \E u \in LeaveUpdates : \E st \in Results(u) :
        /\ Len(st.records) <= MaxRecords
        /\ records' = st.records
        /\ draft' = st.draft
        /\ recordFSM' = st.recordFSM
        /\ mainFSM' = st.mainFSM
        /\ currentSection' = st.currentSection
        /\ currentQuestion' = st.currentQuestion
        /\ lastMessageID' = st.lastMessageID
        /\ lastPrompt' = st.lastPrompt
        /\ listOffset' = st.listOffset
        /\ calls' = st.calls
  /\ UNCHANGED << targetUserID, arrivals, tasks, handled, script, partVars >>

NextRatingSave == ValidateQuestion \/ AnswerRatingQuestion \/ LeaveRatingQuestion

\* The text_rating question inside a filling session that can be left and
\* saved.
SpecRatingSave == InitRating /\ [][NextRatingSave]_vars

\* ---------------------------------------------------- registry test runs
\* The names strategies come with: letters in both cases and blanks.
StrategyNames ==
  LET tokens == {"a", "A", " "}
  IN { <<>> } \cup { << x >> : x \in tokens }
              \cup { << x, y >> : x, y \in tokens }

\* MustRegister of a new strategy value with the name: it panics when the
\* normalized name is taken and stores the strategy otherwise.  A strategy
\* is identified by the number of the call that brought it.
MustRegister ==
  /\ Len(attempts) < MaxRegistrations
  /\ \E name \in StrategyNames :
       LET key == normalize(name)
           exists == key \in DOMAIN registry
       IN /\ attempts' = Append(attempts, name)
          /\ panicked' = exists
          /\ registry' = IF exists THEN registry
                         ELSE [k \in (DOMAIN registry) \cup {key} |->
                                 IF k = key THEN Len(attempts) + 1 ELSE registry[k]]
  /\ UNCHANGED << engineVars, ratingVars, forwardVars, lockVars, menuVars, storeVars >>

NextRegistry == MustRegister

\* resetRegistryForTests, then any registrations.
SpecRegistry == Init /\ [][NextRegistry]_vars

\* ------------------------------------------------- forward message runs
\* Records a forward message is built for: a draft, which has no creation
\* time, and saved records, which enter_record_idle has dated.
ForwardRecords ==
  { [rid |-> 1, data |-> d, createdAt |-> c] :
      d \in { EmptyData,
               DataPut(EmptyData, "town", <<"tb">>),
               DataPut(EmptyData, "note", <<"x">>),
               DataPut(DataPut(EmptyData, "town", <<"ot">>), "note", <<"x">>) },
      c \in 0..TicksPerMinute }

InitForward ==
  /\ InitEngine /\ RatingIdle /\ RegistryIdle /\ LocksIdle /\ MenuIdle /\ StoreIdle
  /\ wallClock = TicksPerMinute
  /\ forwardRecord \in ForwardRecords
  /\ rendered = <<>>

\* Time passes.
Tick ==
  /\ wallClock < MaxClock
  /\ wallClock' = wallClock + 1
  /\ UNCHANGED << engineVars, ratingVars, registryVars, lockVars, forwardRecord, rendered, menuVars, storeVars >>

\* The payload is built and rendered for the record once more.
RenderForward ==
  /\ Len(rendered) < 2
  /\ rendered' = Append(rendered,
                    renderForwardMessage(
                      buildForwardPayload(forwardRecord, UserID, wallClock)))
  /\ UNCHANGED << engineVars, ratingVars, registryVars, lockVars, wallClock, forwardRecord, menuVars, storeVars >>

NextForward == Tick \/ RenderForward

SpecForward == InitForward /\ [][NextForward]_vars

\* ------------------------------------------------------- the store
\* What the participants of the store runs send.
StoreUpdates ==
  { [kind |-> "text", payload |-> t, mid |-> 0] :
      t \in { ButtonMainMenuFillRecord, ButtonMainMenuSendTherapist } }

\* The user states a dispatch for the update leaves behind, from st.
ResultsFrom(st, update) ==
  LET base == HandleUpdate(st, update, targetUserID, DefaultOutcome)
  IN IF Consults(base)
     THEN { HandleUpdate(st, update, targetUserID, oc) : oc \in Outcomes }
     ELSE { base }

\* The chats the port calls of a dispatch have delivered a forwarded record
\* to.
ForwardedTo(log) ==
  { log[k].chat : k \in { i \in 1..Len(log) :
                             log[i].text = "forward_text" /\ log[i].res = "ok" } }

\* The fields of a user state NewStore's creator fills in.
NewUserState ==
  [records |-> <<>>, draft |-> None,
   recordFSM |-> StateRecordIdle, mainFSM |-> StateIdle,
   currentSection |-> <<>>, currentQuestion |-> 0,
   lastMessageID |-> 0, lastPrompt |-> NoMessage,
   listOffset |-> 0, calls |-> <<>>]

\* The instances the FSM factory was invoked for, for the participant id.
InstancesOf(id) == { i \in DOMAIN heap : i[1] = id }

\* The main loop hands an update of a participant, who bears one of the
\* names, to a free goroutine.
AcceptNamed(g, names) ==
  /\ goroutines[g].pc = "idle"
  /\ \E id \in ParticipantIDs, name \in names :
       goroutines' = [goroutines EXCEPT
                        ![g] = [pc |-> "start", id |-> id, name |-> name,
                                ret |-> NoInstance, forwardedTo |-> {}]]
  /\ UNCHANGED << engineVars, ratingVars, registryVars, forwardVars, lockVars,
                  menuVars, storeMu, users, heap, returnedFor >>

\* An update of a participant whose display name may have changed.
AcceptUpdate(g) == AcceptNamed(g, UserNames)

\* An update of a participant who keeps the display name.
AcceptSameName(g) == AcceptNamed(g, {"n1"})

\* A store that does not wait for its mutex.
LockStore_noWait(g) ==
  /\ goroutines[g].pc = "start"
  /\ storeMu' = g
  /\ goroutines' = [goroutines EXCEPT ![g].pc = "lookup"]
  /\ UNCHANGED << engineVars, ratingVars, registryVars, forwardVars, lockVars,
                  menuVars, users, heap, returnedFor >>

\* GetOrCreateUserState: s.mu.Lock().
LockStore(g) ==
  /\ goroutines[g].pc = "start"
  /\ storeMu = 0
  /\ storeMu' = g
  /\ goroutines' = [goroutines EXCEPT ![g].pc = "lookup"]
  /\ UNCHANGED << engineVars, ratingVars, registryVars, forwardVars, lockVars,
                  menuVars, users, heap, returnedFor >>

\* GetOrCreateUserState: the lookup; an entry that exists gets the name of
\* the call and is the result.
LookupUser(g) ==
  /\ goroutines[g].pc = "lookup"
  /\ LET id == goroutines[g].id
         exists == id \in DOMAIN users
     IN IF exists
        THEN /\ heap' = [heap EXCEPT ![users[id]].userName = goroutines[g].name]
             /\ goroutines' = [goroutines EXCEPT ![g].pc = "return",
                                                 ![g].ret = users[id]]
        ELSE /\ heap' = heap
             /\ goroutines' = [goroutines EXCEPT ![g].pc = "create"]
  /\ UNCHANGED << engineVars, ratingVars, registryVars, forwardVars, lockVars,
                  menuVars, storeMu, users, returnedFor >>

\* GetOrCreateUserState: the FSM factory is invoked, the new user state is
\* put into the map and is the result.
CreateUser(g) ==
  /\ goroutines[g].pc = "create"
  /\ Cardinality(InstancesOf(goroutines[g].id)) < MaxInstances
  /\ LET id == goroutines[g].id
         inst == << id, Cardinality(InstancesOf(id)) + 1 >>
     IN /\ heap' = [i \in DOMAIN heap \cup {inst} |->
                      IF i = inst
                      THEN [userName |-> goroutines[g].name, mu |-> 0,
                            st |-> NewUserState]
                      ELSE heap[i]]
        /\ users' = [i \in DOMAIN users \cup {id} |->
                       IF i = id THEN inst ELSE users[i]]
        /\ goroutines' = [goroutines EXCEPT ![g].pc = "return", ![g].ret = inst]
  /\ UNCHANGED << engineVars, ratingVars, registryVars, forwardVars, lockVars,
                  menuVars, storeMu, returnedFor >>

\* GetOrCreateUserState returns: the deferred s.mu.Unlock().
UnlockStore(g) ==
  /\ goroutines[g].pc = "return"
  /\ storeMu' = IF storeMu = g THEN 0 ELSE storeMu
  /\ returnedFor' = [returnedFor EXCEPT ![goroutines[g].id] = @ \cup {goroutines[g].ret}]
  /\ goroutines' = [goroutines EXCEPT ![g].pc = "got"]
  /\ UNCHANGED << engineVars, ratingVars, registryVars, forwardVars, lockVars,
                  menuVars, users, heap >>

\* HandleUpdate: userState.Mu.Lock().
LockUserState(g) ==
  /\ goroutines[g].pc = "got"
  /\ heap[goroutines[g].ret].mu = 0
  /\ heap' = [heap EXCEPT ![goroutines[g].ret].mu = g]
  /\ goroutines' = [goroutines EXCEPT ![g].pc = "locked"]
  /\ UNCHANGED << engineVars, ratingVars, registryVars, forwardVars, lockVars,
                  menuVars, storeMu, users, returnedFor >>

\* A dispatch that notes the forwarded message in the state of the user it
\* went to.
HandleUnderLock_marksTarget(g) ==
  /\ goroutines[g].pc = "locked"
  /\ \E u \in StoreUpdates :
       \E post \in ResultsFrom(heap[goroutines[g].ret].st, u) :
         LET delivered == \E k \in 1..Len(post.calls) :
                            /\ post.calls[k].text = "forward_text"
                            /\ post.calls[k].res = "ok"
             own == [heap EXCEPT ![goroutines[g].ret].st = [post EXCEPT !.calls = <<>>]]
         IN /\ heap' = IF delivered /\ targetUserID \in DOMAIN users
                       THEN [own EXCEPT ![users[targetUserID]].st.lastMessageID = 0,
                                        ![users[targetUserID]].st.lastPrompt = NoMessage]
                       ELSE own
            /\ goroutines' = [goroutines EXCEPT
                                ![g].pc = "handled",
                                ![g].forwardedTo = ForwardedTo(post.calls)]
  /\ UNCHANGED << engineVars, ratingVars, registryVars, forwardVars, lockVars,
                  menuVars, storeMu, users, returnedFor >>

\* HandleUpdate: the update is dispatched on the user state the store
\* returned, under its mutex.
HandleUnderLock(g) ==
  /\ goroutines[g].pc = "locked"
  /\ \E u \in StoreUpdates :
       \E post \in ResultsFrom(heap[goroutines[g].ret].st, u) :
         /\ heap' = [heap EXCEPT ![goroutines[g].ret].st = [post EXCEPT !.calls = <<>>]]
         /\ goroutines' = [goroutines EXCEPT
                             ![g].pc = "handled",
                             ![g].forwardedTo = ForwardedTo(post.calls)]
  /\ UNCHANGED << engineVars, ratingVars, registryVars, forwardVars, lockVars,
                  menuVars, storeMu, users, returnedFor >>

\* A return that keeps the user state locked.
UnlockUserState_keeps(g) ==
  /\ goroutines[g].pc = "handled"
  /\ goroutines' = [goroutines EXCEPT ![g] = IdleGoroutine]
  /\ UNCHANGED << engineVars, ratingVars, registryVars, forwardVars, lockVars,
                  menuVars, storeMu, users, heap, returnedFor >>

\* HandleUpdate returns: the deferred userState.Mu.Unlock().
UnlockUserState(g) ==
  /\ goroutines[g].pc = "handled"
  /\ heap' = [heap EXCEPT ![goroutines[g].ret].mu = 0]
  /\ goroutines' = [goroutines EXCEPT ![g] = IdleGoroutine]
  /\ UNCHANGED << engineVars, ratingVars, registryVars, forwardVars, lockVars,
                  menuVars, storeMu, users, returnedFor >>

\* The goroutine asks for a mutex.
Acquire(g) == LockStore(g) \/ LockUserState(g)

\* The goroutine takes a step of HandleUpdate that waits for nothing.
Run(g) ==
  \/ LookupUser(g) \/ CreateUser(g) \/ UnlockStore(g)
  \/ HandleUnderLock(g) \/ UnlockUserState(g)

NextStore ==
  \E g \in Goroutines :
    \/ AcceptUpdate(g)
    \/ LockStore(g)
    \/ LookupUser(g)
    \/ CreateUser(g)
    \/ UnlockStore(g)
    \/ LockUserState(g)
    \/ HandleUnderLock(g)
    \/ UnlockUserState(g)

\* The updates of two participants handled by goroutines that run side by
\* side, step by step.
SpecStore == Init /\ [][NextStore]_vars

NextDispatch ==
  \E g \in Goroutines : AcceptSameName(g) \/ Acquire(g) \/ Run(g)

\* The updates of participants who keep their names, under a scheduler that
\* lets every goroutine run and mutexes that hand themselves to a goroutine
\* that keeps waiting (sync.Mutex leaves no waiter behind for good).
SpecStoreFair ==
  /\ Init /\ [][NextDispatch]_vars
  /\ \A g \in Goroutines : SF_vars(Acquire(g)) /\ WF_vars(Run(g))

\* ------------------------------------------------- the section menu
\* The orders in which a range over a Go map with these keys can yield
\* them: the language leaves the order open and the runtime varies it.
MapRangeOrders(keys) ==
  { f \in [1..Cardinality(keys) -> keys] :
      \A i, j \in 1..Cardinality(keys) : f[i] = f[j] => i = j }

\* getSortedSectionIDs: the keys of the sections map as the range yields
\* them; the function returns them as collected.
getSortedSectionIDs(sections) == MapRangeOrders(DOMAIN sections)

sectionHasData(sectionConf, recordData) ==
  \E i \in 1..Len(sectionConf.questions) :
    DataGet(recordData, sectionConf.questions[i].storeKey) # <<>>

\* The section rows of the keyboard enterSelectingSection builds: one button
\* per section id, in the order given, with a check mark when the record
\* holds an answer of the section.
sectionRows(sectionIDs, recordData) ==
  [i \in 1..Len(sectionIDs) |->
     [text |-> IF sectionHasData(Sections[sectionIDs[i]], recordData)
               THEN << Sections[sectionIDs[i]].title, "check_mark" >>
               ELSE << Sections[sectionIDs[i]].title >>,
      data |-> CallbackSectionPrefix \o sectionIDs[i]]]

\* enterSelectingSection builds the keyboard for the record once more.
ShowSectionMenu ==
  /\ \E sectionIDs \in getSortedSectionIDs(Sections) :
       menuRows' = sectionRows(sectionIDs, forwardRecord.data)
  /\ menuBefore' = menuRows
  /\ UNCHANGED << engineVars, ratingVars, registryVars, forwardVars, lockVars, storeVars >>

NextMenu == ShowSectionMenu

\* The section menu rendered again and again for a record that is also
\* forwarded.
SpecMenu == InitForward /\ [][NextMenu]_vars

\* ------------------------------------------------------------ properties
\* The user state a dispatch of update leaves behind when the consulted port
\* call ends with outcome oc, computed from the current state; Results(update)
\* is the set of these states over all outcomes.
Post(update, oc) == HandleUpdate(US, update, targetUserID, oc)

Call(text) == { c \in { calls[i] : i \in 1..Len(calls) } : c.text = text }

SaveRecordCallbacks ==
  { u \in CallbackUpdates : u.payload = CallbackActionPrefix \o ActionSaveRecord }

ExitMenuCallbacks ==
  { u \in CallbackUpdates : u.payload = CallbackActionPrefix \o ActionExitMenu }

SendSelfText == [kind |-> "text", payload |-> ButtonMainMenuSendSelf, mid |-> 0]

SendTherapistText == [kind |-> "text", payload |-> ButtonMainMenuSendTherapist, mid |-> 0]

\* C1: between dispatches the draft, if there is one, has saved = false and
\* every record of the records list has saved = true.
C1_SavedFlags ==
  /\ draft # None => ~draft.saved
  /\ \A i \in 1..Len(records) : records[i].saved

\* A draft is open while a record saved earlier is in the list.
C1_Witness ==
  /\ draft # None
  /\ records # <<>>
  /\ Call("record_saved") = {}
  /\ calls # <<>>

\* C2: whenever the record FSM is in answering_question, the current section
\* names a section of the schema and the current question index is an index
\* of one of its questions.
C2_AnsweringPositionValid ==
  recordFSM = StateAnsweringQuestion =>
    /\ currentSection \in DOMAIN Sections
    /\ currentQuestion >= 0
    /\ currentQuestion < Len(Sections[currentSection].questions)

\* C3: whenever the record FSM is in record_idle, the current section is
\* empty and the current question index is 0.
C3_IdlePositionZero ==
  recordFSM = StateRecordIdle => currentSection = <<>> /\ currentQuestion = 0

\* The record FSM was forced back to record_idle by the last dispatch.
C3_Witness ==
  /\ recordFSM = StateRecordIdle
  /\ Call("force_exit") # {}
  /\ draft # None /\ draft.data # EmptyData

\* The edges of the record FSM as pairs of states.
RecordEdges ==
  { << StateRecordIdle, StateSelectingSection >>,
    << StateSelectingSection, StateAnsweringQuestion >>,
    << StateAnsweringQuestion, StateAnsweringQuestion >>,
    << StateAnsweringQuestion, StateSelectingSection >>,
    << StateSelectingSection, StateRecordIdle >>,
    << StateAnsweringQuestion, StateRecordIdle >> }

\* C4: a dispatch changes the record FSM state only along an edge of the
\* table, record_idle is left only by a message (the start of a record) and
\* selecting_section is left for answering_question only by a callback; a
\* save_record or exit_menu callback received in answering_question leaves
\* the state, the draft and the records as they are.
C4_OnlyTableEdges ==
  /\ [][ recordFSM' # recordFSM =>
           /\ << recordFSM, recordFSM' >> \in RecordEdges
           /\ recordFSM = StateRecordIdle =>
                /\ recordFSM' = StateSelectingSection
                /\ calls'[1].op # "ack"
           /\ (recordFSM = StateSelectingSection /\ recordFSM' = StateAnsweringQuestion) =>
                calls'[1].op = "ack" ]_vars
  /\ [](recordFSM = StateAnsweringQuestion =>
          \A u \in SaveRecordCallbacks \cup ExitMenuCallbacks :
            \A post \in Results(u) :
               /\ post.recordFSM = StateAnsweringQuestion
               /\ post.draft = draft
               /\ post.records = records)

\* A callback was acknowledged and otherwise ignored while a question was
\* being answered.
C4_Witness ==
  /\ recordFSM = StateAnsweringQuestion
  /\ Len(calls) = 1
  /\ calls[1].op = "ack"
  /\ draft # None

\* C5: when save_record is dispatched in selecting_section, afterwards there
\* is no draft, the records list is the previous list with the former draft
\* appended at its end with saved = true, and the record FSM is in record_idle.
C5_SaveAppendsDraft ==
  recordFSM = StateSelectingSection =>
    \A u \in SaveRecordCallbacks, oc \in Outcomes :
      LET post == Post(u, oc)
          n == Len(records)
      IN /\ draft # None
         /\ post.draft = None
         /\ post.recordFSM = StateRecordIdle
         /\ Len(post.records) = n + 1
         /\ SubSeq(post.records, 1, n) = records
         /\ post.records[n + 1].rid = draft.rid
         /\ post.records[n + 1].data = draft.data
         /\ post.records[n + 1].saved
         /\ \A i \in 1..n : records[i].rid # draft.rid

\* A draft was saved behind a record that was already in the list.
C5_Witness ==
  /\ Call("record_saved") # {}
  /\ Len(records) = 2
  /\ draft = None
  /\ recordFSM = StateRecordIdle

\* The sends of a rendered record among the calls of a dispatch that ended
\* in state post, as indices into post.calls.
ForwardSends(post) ==
  { k \in 1..Len(post.calls) : post.calls[k].text = "forward_text" }

\* The fields a forward is said to leave alone.
SameAnswers(post) ==
  /\ post.records = records
  /\ post.draft = draft
  /\ post.currentSection = currentSection
  /\ post.currentQuestion = currentQuestion
  /\ post.lastMessageID = lastMessageID
  /\ post.lastPrompt = lastPrompt

\* C6: no dispatch changes the data of a record that is already saved; a
\* saved record leaves the list only in a reviewer-forward whose send to the
\* target succeeded.
C6_SavedDataFrozen ==
  [][ \A i \in 1..Len(records) :
        \/ \E j \in 1..Len(records') :
             /\ records'[j].rid = records[i].rid
             /\ records'[j].data = records[i].data
             /\ records'[j].saved
        \/ /\ \A j \in 1..Len(records') : records'[j].rid # records[i].rid
           /\ \E k \in 1..Len(calls') :
                /\ calls'[k].text = "forward_text"
                /\ calls'[k].chat = targetUserID
                /\ calls'[k].res = "ok"
                /\ calls'[k].rid = records[i].rid
           /\ \E k \in 1..Len(calls') : calls'[k].text = "sent_to_target" ]_vars

\* A new draft has answers while an earlier record is saved with other data.
C6_Witness ==
  /\ records # <<>>
  /\ draft # None
  /\ draft.data # EmptyData
  /\ draft.data # records[Len(records)].data
  /\ Call("prompt_q2") # {}

\* C7: after a reviewer-forward whose send to the target succeeded, the
\* record that was sent is gone from the records list (and from the draft
\* pointer if it was the draft), the other records are kept in order, and
\* the current section, question index, last message id and last prompt are
\* zeroed.
C7_ReviewerForwardRemoves ==
  \A oc \in Outcomes :
    LET post == Post(SendTherapistText, oc)
        sentOK == { k \in ForwardSends(post) :
                      post.calls[k].chat = targetUserID /\ post.calls[k].res = "ok" }
    IN (mainFSM = StateIdle /\ recordFSM = StateRecordIdle /\ sentOK # {}) =>
         \A k \in sentOK :
           /\ post.records = SelectSeq(records, LAMBDA r : r.rid # post.calls[k].rid)
           /\ post.draft = IF draft # None /\ draft.rid = post.calls[k].rid
                           THEN None ELSE draft
           /\ post.currentSection = <<>>
           /\ post.currentQuestion = 0
           /\ post.lastMessageID = 0
           /\ post.lastPrompt = NoMessage

\* C8: when the send of the record to the forward target fails, the
\* records, the draft, the position fields, the last message id and the
\* last prompt are as before the dispatch, and a failure notice is sent to
\* the requester afterwards.
C8_FailedForwardKeepsState ==
  \A u \in {SendSelfText, SendTherapistText} :
    \A post \in Results(u) :
       \A k \in { n \in ForwardSends(post) : post.calls[n].res # "ok" } :
         /\ SameAnswers(post)
         /\ post.recordFSM = recordFSM
         /\ \E n \in (k + 1)..Len(post.calls) :
              /\ post.calls[n].op = "send"
              /\ post.calls[n].chat = UserID
              /\ post.calls[n].text = "forward_failed"

\* The send of a saved record to the reviewer failed in the last dispatch.
C8_Witness ==
  /\ records # <<>>
  /\ \E c \in Call("forward_text") : c.chat = TargetID /\ c.res = "err"
  /\ Call("forward_failed") # {}

\* C9: a self-forward sends the record to the requester's own chat and
\* nowhere else, and leaves the records, the draft and the position fields
\* as they were whether the send succeeds or fails.
C9_SelfForwardKeepsState ==
  (mainFSM = StateIdle /\ recordFSM = StateRecordIdle) =>
    \A oc \in Outcomes :
      LET post == Post(SendSelfText, oc)
      IN /\ SameAnswers(post)
         /\ post.recordFSM = recordFSM
         /\ \A k \in 1..Len(post.calls) : post.calls[k].chat = UserID
         /\ (records # <<>> \/ draft # None) => ForwardSends(post) # {}

\* A saved record was sent to the requester's own chat in the last dispatch.
C9_Witness ==
  /\ records # <<>>
  /\ \E c \in Call("forward_text") : c.chat = UserID /\ c.res = "ok"
  /\ Call("sent_to_self") # {}

\* C10: the selection for a forward is the saved record with the highest
\* index whenever a saved record exists, the draft when none does, and none
\* when there is neither, and then no forward sends anything but a notice to
\* the requester.
C10_SelectionPreference ==
  LET savedIdx == { i \in 1..Len(records) : records[i].saved }
      selected == selectRecordForForward(US)
  IN /\ savedIdx # {} =>
          \E i \in savedIdx : (\A j \in savedIdx : j <= i) /\ selected = records[i]
     /\ (savedIdx = {} /\ draft # None) => selected = draft
     /\ (savedIdx = {} /\ draft = None) =>
          /\ selected = None
          /\ \A u \in {SendSelfText, SendTherapistText} :
               \A post \in Results(u) :
                  /\ ForwardSends(post) = {}
                  /\ \A k \in 1..Len(post.calls) : post.calls[k].chat = UserID
     /\ \A u \in {SendSelfText, SendTherapistText} :
          \A post \in Results(u) :
             \A k \in ForwardSends(post) :
               \/ \E i \in savedIdx :
                    (\A j \in savedIdx : j <= i) /\ post.calls[k].rid = records[i].rid
               \/ /\ savedIdx = {} /\ draft # None
                  /\ post.calls[k].rid = draft.rid

\* The later of two saved records was sent while a draft was open.
C10_Witness ==
  /\ Len(records) = 2
  /\ draft # None
  /\ \E c \in Call("forward_text") : c.rid = records[2].rid

\* Every field of the user state is as before the dispatch.
SameState(post) ==
  /\ SameAnswers(post)
  /\ post.recordFSM = recordFSM
  /\ post.mainFSM = mainFSM
  /\ post.listOffset = listOffset

AnswerCallbacks ==
  { u \in CallbackUpdates : SplitN2(u.payload)[1] \o <<":">> = CallbackAnswerPrefix }

\* The question id an answer callback carries (empty when it carries none).
DecodedQuestionID(u) ==
  LET parts == SplitN2(u.payload)
      answerParts == IF Len(parts) > 1 THEN SplitN2(parts[2]) ELSE << <<>> >>
  IN IF Len(answerParts) = 2 THEN answerParts[1] ELSE <<>>

\* C11: an answer callback received in answering_question for a question
\* other than the current one changes no field of the user state and reaches
\* no strategy: the port gets the acknowledgement and then the acknowledgement
\* that carries the stale notice, and nothing else.
C11_StaleAnswerIgnored ==
  recordFSM = StateAnsweringQuestion =>
    \A u \in AnswerCallbacks :
      LET currentQID ==
            IF /\ currentSection \in DOMAIN Sections
               /\ currentQuestion >= 0
               /\ currentQuestion < Len(Sections[currentSection].questions)
            THEN Sections[currentSection].questions[currentQuestion + 1].id
            ELSE <<>>
      IN (DecodedQuestionID(u) # <<>> /\ DecodedQuestionID(u) # currentQID) =>
           \A post \in Results(u) :
              /\ SameState(post)
              /\ Len(post.calls) = 2
              /\ post.calls[1].op = "ack" /\ post.calls[1].text = ""
              /\ post.calls[2].op = "ack"
              /\ post.calls[2].text = "answer_to_previous_question"

\* The second question is current, the first is answered, and the last
\* dispatch was an answer callback for another question.
C11_Witness ==
  /\ recordFSM = StateAnsweringQuestion
  /\ currentQuestion = 1
  /\ draft # None /\ draft.data # EmptyData
  /\ Call("answer_to_previous_question") # {}

\* The callback is one the current FSM states do not accept.
NotAccepted(u) ==
  LET parts == SplitN2(u.payload)
      prefix == parts[1] \o <<":">>
      value == IF Len(parts) > 1 THEN parts[2] ELSE <<>>
  IN \/ prefix = CallbackAnswerPrefix /\ recordFSM # StateAnsweringQuestion
     \/ prefix = CallbackSectionPrefix /\ recordFSM # StateSelectingSection
     \/ /\ prefix = CallbackActionPrefix
        /\ value \in {ActionSaveRecord, ActionExitMenu, ActionNewRecord}
        /\ recordFSM # StateSelectingSection
     \/ /\ prefix = CallbackActionPrefix
        /\ value = ActionCancelSection
        /\ recordFSM # StateAnsweringQuestion
     \/ prefix = CallbackListNavPrefix /\ mainFSM # StateViewingList

\* C12: a callback received while the FSMs are not in the state that accepts
\* it (answer outside answering_question; section, save_record, exit_menu or
\* new_record outside selecting_section; cancel_section outside
\* answering_question; list_nav outside viewingList) changes no field of the
\* user state.
C12_WrongStateCallbackIgnored ==
  \A u \in CallbackUpdates :
    NotAccepted(u) => \A post \in Results(u) : SameState(post)

\* A list navigation callback arrived while a draft was open in the section
\* menu and was answered as unavailable.
C12_Witness ==
  /\ recordFSM = StateSelectingSection
  /\ draft # None
  /\ Call("action_unavailable") # {}

\* The prompt texts of the schema's questions.
Prompts ==
  UNION { { Sections[sec].questions[i].prompt :
              i \in 1..Len(Sections[sec].questions) } : sec \in DOMAIN Sections }

\* The edits of a question prompt in the last dispatch that the transport
\* answered with message_not_modified, as indices into calls.
PromptEditsNotModified ==
  { k \in 1..Len(calls) :
      /\ calls[k].op = "edit"
      /\ calls[k].text \in Prompts
      /\ calls[k].res \in {"nm_wrapped", "nm_bare"} }

\* C13: when the edit of a question prompt is answered with
\* message_not_modified, the dispatch ends with last message id equal to the
\* id of the edited message, the last prompt carrying that id and the
\* participant's chat id, and the record FSM in answering_question with no
\* force_exit fired.
C13_PromptNotModifiedKeepsHandle ==
  \A k \in PromptEditsNotModified :
    /\ lastMessageID = calls[k].mid
    /\ lastPrompt.mid = calls[k].mid
    /\ lastPrompt.chat = UserID
    /\ recordFSM = StateAnsweringQuestion
    /\ Call("force_exit") = {}

\* The edit of the second question's prompt was answered with the bare
\* message_not_modified code.
C13_Witness ==
  /\ \E k \in PromptEditsNotModified :
       calls[k].res = "nm_bare" /\ calls[k].text = "prompt_q2" /\ calls[k].mid # 0
  /\ currentQuestion = 1

\* The edits that display the section menu in the last dispatch and were
\* answered with an error of code message_not_modified.
MenuEditsNotModified ==
  { k \in 1..Len(calls) :
      /\ calls[k].op = "edit"
      /\ calls[k].text = "section_menu"
      /\ calls[k].res \in {"nm_wrapped", "nm_bare"} }

\* C14: when the edit that displays the section menu is answered with an
\* error of code message_not_modified, the dispatch ends with the record FSM
\* in selecting_section, last message id equal to the id of the message the
\* edit named, and no force_exit fired.
C14_MenuNotModifiedKeepsHandle ==
  \A k \in MenuEditsNotModified :
    /\ recordFSM = StateSelectingSection
    /\ lastMessageID = calls[k].mid
    /\ Call("force_exit") = {}

\* The /start command as an update.
StartCommands == { u \in CommandUpdates : u.payload = <<"start">> }

PromptFailures ==
  { k \in 1..Len(calls) :
      /\ calls[k].op \in {"send", "edit"}
      /\ calls[k].text \in Prompts \cup {"section_menu"}
      /\ calls[k].res = "err" }

\* C16: when the send or edit of a prompt fails with a transport error other
\* than message_not_modified, force_exit is fired: the dispatch ends in
\* record_idle with the draft still open.
C16_PromptFailureForcesExit ==
  \A k \in PromptFailures :
    /\ recordFSM = StateRecordIdle
    /\ draft # None
    /\ Call("force_exit") # {}

\* The input a dispatch of update u hands to the strategy of the current
\* question.
AnswerInputOf(u) ==
  IF u.kind = "text"
  THEN [source |-> "text", text |-> u.payload, callbackData |-> <<>>]
  ELSE [source |-> "callback", text |-> <<>>,
        callbackData |-> SplitN2(SplitN2(u.payload)[2])[2]]

\* The updates whose dispatch calls HandleAnswer of the current question's
\* strategy and gets an error.
HandleAnswerFails ==
  { u \in TextUpdates \cup AnswerCallbacks \cup PluginCallbacks :
      /\ recordFSM = StateAnsweringQuestion
      /\ CurrentQuestionValid(US)
      /\ CurrentQuestionOf(US).type \in Registered
      /\ \/ u.kind = "text"
         \/ /\ u.kind = "callback"
            /\ SplitN2(u.payload)[1] \o <<":">> = CallbackAnswerPrefix
            /\ DecodedQuestionID(u) = CurrentQuestionOf(US).id
      /\ HandleAnswer(US, CurrentQuestionOf(US), AnswerInputOf(u)).err # "nil" }

\* C17: when a strategy invocation of a dispatch returns an error (HandleAnswer
\* for a text or a callback input, or Render of the current question),
\* force_exit is fired: the dispatch ends in record_idle with the draft kept.
C17_StrategyErrorForcesExit ==
  /\ \A u \in HandleAnswerFails : \A post \in Results(u) :
        post.recordFSM = StateRecordIdle /\ post.draft = draft
  /\ Call("could_not_prepare_question") # {} =>
        recordFSM = StateRecordIdle /\ draft # None

\* C18: the updates of the participant are handled in arrival order: of two
\* updates, the one that arrived first has its state changes applied first,
\* whichever way the goroutines are scheduled.
C18_ArrivalOrder ==
  \A i, j \in 1..Len(handled) : i < j => handled[i] < handled[j]

\* The record the happy-path scenario is to leave behind.
HappyRecord ==
  [rid |-> 1, saved |-> TRUE, created |-> TRUE,
   data |-> DataPut(DataPut(EmptyData, "name", <<"Alice">>), "city", <<"tb">>)]

\* C19: the happy path /start, "fill record", section:Personal, text Alice,
\* answer:q2:tb, action:save_record over the section Personal = [q1 text
\* name, q2 buttons city] ends with exactly one record, with data {name:
\* Alice, city: tb} and saved set, with no draft, and with the record FSM in
\* record_idle.
C19_HappyPath ==
  [][ (script = Len(HappyScript) - 1 /\ script' = Len(HappyScript)) =>
        /\ records' = << HappyRecord >>
        /\ draft' = None
        /\ recordFSM' = StateRecordIdle ]_vars

\* The scenario has just ended with the save.
C19_Witness ==
  /\ script = Len(HappyScript)
  /\ Len(records) = 1 /\ records[1].saved
  /\ DataGet(records[1].data, "name") = <<"Alice">>
  /\ Call("record_saved") # {}

\* A button question is the current question.
ButtonQuestionCurrent ==
  /\ recordFSM = StateAnsweringQuestion
  /\ CurrentQuestionValid(US)
  /\ CurrentQuestionOf(US).type = "buttons"

\* C20: a text message received while a button question is current leaves
\* the records and the draft (its data included) as they were, sends the
\* feedback to the participant and then renders the question again, and
\* leaves the record FSM in answering_question at the same section and
\* question index.
C20_TextOnButtonQuestionRepeats ==
  ButtonQuestionCurrent =>
    \A u \in TextUpdates : \A post \in Results(u) :
      /\ post.draft = draft
      /\ post.records = records
      /\ post.recordFSM = StateAnsweringQuestion
      /\ post.currentSection = currentSection
      /\ post.currentQuestion = currentQuestion
      /\ Len(post.calls) = 2
      /\ post.calls[1].op = "send"
      /\ post.calls[1].chat = UserID
      /\ post.calls[1].text = "use_the_buttons"
      /\ post.calls[2].op \in {"send", "edit"}
      /\ post.calls[2].text = CurrentQuestionOf(US).prompt

\* The last dispatch answered a text with the feedback while the button
\* question of a draft that already holds an answer was current.
C20_Witness ==
  /\ ButtonQuestionCurrent
  /\ draft # None /\ draft.data # EmptyData
  /\ Len(calls) = 2
  /\ calls[1].text = "use_the_buttons"
  /\ calls[2].text = CurrentQuestionOf(US).prompt

\* The step of the text_rating question a record is at (text when no step
\* is stored).
RatingStep(rec) ==
  LET v == DataGet(rec.data, getStepKey(ratingQuestion.id))
  IN IF v = <<>> THEN stepCollectText ELSE v

\* The reserved keys of the text_rating question.
ReservedKeys ==
  { getStepKey(ratingQuestion.id), getTempTextKey(ratingQuestion.id),
    getTempRatingKey(ratingQuestion.id) }

\* The entry made of the text and the rating a record holds temporarily.
PendingEntry(rec) ==
  formatEntry(DataGet(rec.data, getTempTextKey(ratingQuestion.id)),
              DataGet(rec.data, getTempRatingKey(ratingQuestion.id)))

\* C21: for a text_rating question every HandleAnswer that changes the record
\* moves the step text -> rating, rating -> next_finish or next_finish ->
\* text; only at next_finish does the storage key change, and then exactly one
\* formatted entry is added after the stored ones, joined by a newline; "next"
\* stores the step text and returns repeat without advance, "finish" removes
\* the step, temporary-text and temporary-rating keys and returns advance.
C21_RatingSteps ==
  [][ draft' # draft =>
        LET input == lastAnswer'.input
            result == lastAnswer'.result
            old == DataGet(draft.data, ratingQuestion.storeKey)
            new == DataGet(draft'.data, ratingQuestion.storeKey)
        IN /\ << RatingStep(draft), RatingStep(draft') >> \in
                { << stepCollectText, stepCollectRating >>,
                  << stepCollectRating, stepNextOrFinish >>,
                  << stepNextOrFinish, stepCollectText >> }
           /\ RatingStep(draft) # stepNextOrFinish =>
                 /\ new = old
                 /\ result.repeat /\ ~result.advance
           /\ RatingStep(draft) = stepNextOrFinish =>
                 /\ new = IF old = <<>> THEN PendingEntry(draft)
                          ELSE old \o <<"\n">> \o PendingEntry(draft)
                 /\ EntryCount(draft') = EntryCount(draft) + 1
                 /\ input.callbackData \in { <<"next">>, <<"finish">> }
                 /\ input.callbackData = <<"next">> =>
                       /\ DataGet(draft'.data, getStepKey(ratingQuestion.id))
                            = stepCollectText
                       /\ result.repeat /\ ~result.advance
                 /\ input.callbackData = <<"finish">> =>
                       /\ ReservedKeys \cap DOMAIN draft'.data = {}
                       /\ result.advance ]_vars

\* Two entries are stored and the last HandleAnswer was "finish".
C21_Witness ==
  /\ validated = "ok"
  /\ EntryCount(draft) = 2
  /\ lastAnswer.input.callbackData = <<"finish">>
  /\ lastAnswer.result.advance
  /\ ReservedKeys \cap DOMAIN draft.data = {}

\* C22: a question the text_rating validator accepts has, with the defaults
\* 1 and 10 in place of bounds that are not set, a rating range with
\* 1 <= min <= max <= 20, so the rating prompt has at least one button.
C22_RatingRangeValid ==
  validated = "ok" =>
    /\ 1 <= getRatingRange(ratingQuestion).min
    /\ getRatingRange(ratingQuestion).min <= getRatingRange(ratingQuestion).max
    /\ getRatingRange(ratingQuestion).max <= 20

\* Two names are variants of one another: without the blanks around them
\* they have the same letters, whatever the case.
SameLetter(x, y) == x = y \/ {x, y} = {"a", "A"}

VariantOf(n, m) ==
  /\ Len(TrimSpace(n)) = Len(TrimSpace(m))
  /\ \A i \in 1..Len(TrimSpace(n)) :
       SameLetter(TrimSpace(n)[i], TrimSpace(m)[i])

\* The calls of MustRegister so far with a variant of the name.
AttemptsUnder(name) ==
  { i \in 1..Len(attempts) : VariantOf(attempts[i], name) }

\* The first strategy registered under the normalized name, Missing when
\* there was none.
FirstUnder(name) ==
  IF AttemptsUnder(name) = {} THEN Missing
  ELSE CHOOSE i \in AttemptsUnder(name) : \A j \in AttemptsUnder(name) : i <= j

\* C23: a MustRegister whose normalized (lowercased, trimmed) name is already
\* registered panics and leaves the registry as it was, any other one does
\* not panic; after every call, Get of any case or blank variant of a name
\* returns the strategy that was registered first under the normalized name,
\* and Get of a name nothing was registered under returns nil.
C23_RegistryFirstWins ==
  [][ attempts' # attempts =>
        LET name == attempts'[Len(attempts')]
        IN /\ AttemptsUnder(name) # {} => panicked' /\ registry' = registry
           /\ AttemptsUnder(name) = {} => ~panicked'
           /\ \A n \in StrategyNames :
                 Get(registry', n) =
                   IF AttemptsUnder(n) # {} THEN FirstUnder(n)
                   ELSE IF VariantOf(n, name) THEN Len(attempts')
                   ELSE Missing ]_vars

\* A strategy was registered, and a later one whose name differs from it only
\* in case and blanks was refused.
C23_Witness ==
  /\ panicked
  /\ Len(attempts) >= 2
  /\ attempts[Len(attempts)] # attempts[FirstUnder(attempts[Len(attempts)])]
  /\ Get(registry, attempts[Len(attempts)]) = FirstUnder(attempts[Len(attempts)])

\* C24: building the forward payload and rendering it twice for the same
\* record, participant and schema gives the same text both times, for a saved
\* record and for a draft without a creation time alike.
C24_RenderTwiceSame ==
  Len(rendered) = 2 => rendered[1] = rendered[2]

\* The 'Fill record' button of the main menu as an update.
FillRecordText == [kind |-> "text", payload |-> ButtonMainMenuFillRecord, mid |-> 0]

\* C25: exit_menu dispatched in selecting_section leaves the draft (pointer
\* and data) as it was and zeroes the current section, the question index
\* and the last message id; 'Fill record' dispatched next goes on with that
\* same draft and opens no new one; no unsaved record exists besides the
\* draft.
C25_ExitKeepsDraftFillResumes ==
  /\ \A i \in 1..Len(records) : records[i].saved /\ records[i].rid # draft.rid
  /\ recordFSM = StateSelectingSection =>
       \A u \in ExitMenuCallbacks : \A post \in Results(u) :
         /\ post.recordFSM = StateRecordIdle
         /\ post.draft = draft
         /\ post.currentSection = <<>>
         /\ post.currentQuestion = 0
         /\ post.lastMessageID = 0
         /\ \A oc \in Outcomes :
              LET resumed == HandleUpdate([post EXCEPT !.calls = <<>>],
                                          FillRecordText, targetUserID, oc)
              IN /\ resumed.draft = draft
                 /\ resumed.records = records

\* An answered draft was left open by exit_menu.
C25_Witness ==
  /\ recordFSM = StateRecordIdle
  /\ draft # None /\ draft.data # EmptyData
  /\ Call("exit_draft_kept") # {}
  /\ currentSection = <<>> /\ currentQuestion = 0 /\ lastMessageID = 0

\* C26: a reviewer-forward while the configured target id is zero and a
\* record exists sends nothing to a chat other than the requester's, sends
\* the requester the warning that no target is configured, and leaves every
\* field of the user state as it was.
C26_NoTargetWarnsOnly ==
  (/\ targetUserID = 0
   /\ mainFSM = StateIdle /\ recordFSM = StateRecordIdle
   /\ selectRecordForForward(US) # None) =>
    \A post \in Results(SendTherapistText) :
      /\ \A k \in 1..Len(post.calls) : post.calls[k].chat = UserID
      /\ \E k \in 1..Len(post.calls) :
           /\ post.calls[k].op = "send"
           /\ post.calls[k].text = "target_not_configured"
      /\ ForwardSends(post) = {}
      /\ SameState(post)

\* With no target configured, a reviewer-forward of an existing record ended
\* with the warning.
C26_Witness ==
  /\ targetUserID = 0
  /\ selectRecordForForward(US) # None
  /\ Call("target_not_configured") # {}

\* C27: processAnswer (the answer advanced) at the question index i of the
\* current section: when i + 1 is below the number of the section's questions
\* the index becomes i + 1, the section stays and the record FSM stays in
\* answering_question; otherwise the section and the index are cleared and
\* the record FSM is in selecting_section.
C27_AdvanceMovesPosition ==
  (/\ recordFSM = StateAnsweringQuestion
   /\ currentSection \in DOMAIN Sections
   /\ currentQuestion < Len(Sections[currentSection].questions)) =>
    \A oc \in Outcomes : \A messageID \in {0} \cup MsgIDs :
      LET post == processAnswer(US, messageID, oc)
      IN IF currentQuestion + 1 < Len(Sections[currentSection].questions)
         THEN /\ post.currentQuestion = currentQuestion + 1
              /\ post.currentSection = currentSection
              /\ post.recordFSM = StateAnsweringQuestion
         ELSE /\ post.currentQuestion = 0
              /\ post.currentSection = <<>>
              /\ post.recordFSM = StateSelectingSection

\* The section menu could not be shown in the dispatch that ended in post:
\* its send or edit returned an error whose text does not say that the
\* message is not modified.
MenuFailed(post) ==
  \E k \in 1..Len(post.calls) :
    /\ post.calls[k].text = "section_menu"
    /\ post.calls[k].res \notin {"ok", "nm_wrapped"}

\* C27, with the case the statement leaves out: as above, but when the
\* section is complete and the section menu cannot be shown, force_exit
\* takes the record FSM on from selecting_section to record_idle.
C27_AdvanceMovesPositionOrExits ==
  (/\ recordFSM = StateAnsweringQuestion
   /\ currentSection \in DOMAIN Sections
   /\ currentQuestion < Len(Sections[currentSection].questions)) =>
    \A oc \in Outcomes : \A messageID \in {0} \cup MsgIDs :
      LET post == processAnswer(US, messageID, oc)
      IN IF currentQuestion + 1 < Len(Sections[currentSection].questions)
         THEN /\ post.currentQuestion = currentQuestion + 1
              /\ post.currentSection = currentSection
              /\ post.recordFSM = StateAnsweringQuestion
         ELSE /\ post.currentQuestion = 0
              /\ post.currentSection = <<>>
              /\ post.recordFSM = IF MenuFailed(post) THEN StateRecordIdle
                                  ELSE StateSelectingSection

\* The answer to the last question of a section was stored and the section
\* menu that was to follow could not be shown.
C27_Witness ==
  /\ recordFSM = StateRecordIdle
  /\ draft # None /\ "note" \in DOMAIN draft.data
  /\ currentSection = <<>> /\ currentQuestion = 0
  /\ \E k \in 1..Len(calls) : calls[k].text = "section_menu" /\ calls[k].res = "err"
  /\ Call("force_exit") # {}

\* The sends and edits of the prompt among the calls of a dispatch that
\* ended in post, as indices into post.calls.
PromptCalls(post, prompt) ==
  { k \in 1..Len(post.calls) :
      post.calls[k].op \in {"send", "edit"} /\ post.calls[k].text = prompt }

\* C28: when an answer advances to a further question of the same section,
\* the dispatch issues exactly one send or edit of the next question's prompt
\* and the record FSM stays in answering_question, on the engine that refuses
\* the self-transition (the question is asked by direct re-entry) and on one
\* that performs it (the enter callback asks it) alike.
C28_OnePromptOnAdvance ==
  (/\ recordFSM = StateAnsweringQuestion
   /\ currentSection \in DOMAIN Sections
   /\ currentQuestion + 1 < Len(Sections[currentSection].questions)) =>
    LET nextPrompt == Sections[currentSection].questions[currentQuestion + 2].prompt
    IN /\ \A oc \in Outcomes : \A messageID \in {0} \cup MsgIDs :
            \A post \in { processAnswer(US, messageID, oc),
                          processAnswerPerformed(US, messageID, oc) } :
              /\ Cardinality(PromptCalls(post, nextPrompt)) = 1
              /\ post.recordFSM = StateAnsweringQuestion
       /\ \A u \in AnswerCallbacks : \A post \in Results(u) :
            post.currentQuestion = currentQuestion + 1 =>
              /\ Cardinality(PromptCalls(post, nextPrompt)) = 1
              /\ post.recordFSM = StateAnsweringQuestion

\* The answer to the first question of section a was stored and the second
\* question was asked once, in the message of the first.
C28_Witness ==
  /\ recordFSM = StateAnsweringQuestion
  /\ currentSection = <<"a">> /\ currentQuestion = 1
  /\ "town" \in DOMAIN draft.data
  /\ Len(calls) = 2
  /\ calls[1].op = "ack"
  /\ calls[2].op = "edit" /\ calls[2].text = "prompt_q2" /\ calls[2].res = "ok"

\* The callback queries of the engine's run, each under a query id of its
\* own kind: the ids differ between the answer callbacks and the others.
IdentifiedCallbacks ==
  { [u EXCEPT !.id = IF SplitN2(u.payload)[1] \o <<":">> = CallbackAnswerPrefix
                     THEN "cb1" ELSE "cb2"] :
      u \in CallbackUpdates \cup PluginCallbacks }

userFields ==
  << records, draft, recordFSM, mainFSM, currentSection, currentQuestion,
     lastMessageID, lastPrompt, listOffset, userName >>

\* C30: every write to a field of the existing user state, by the dispatcher
\* or by the store's get-or-create, is made by a goroutine that holds the
\* user's mutex at that moment.
C30_WritesUnderUserMutex ==
  [][ userFields' # userFields =>
        \E t \in tasks : t \notin tasks' /\ userMu = t.seq ]_vars

\* C35: between dispatches, whenever the record FSM is in selecting_section
\* or answering_question a draft exists: the draft pointer is set and the
\* draft has its data map.
C35_DraftWhileFilling ==
  recordFSM \in {StateSelectingSection, StateAnsweringQuestion} =>
    /\ draft # None
    /\ "data" \in DOMAIN draft
    /\ ~draft.saved

\* The new_record action replaced an answered draft while a record was
\* saved already: the section menu was edited in place.
C35_Witness ==
  /\ recordFSM = StateSelectingSection
  /\ records # <<>>
  /\ draft # None /\ draft.data = EmptyData
  /\ Len(calls) = 2
  /\ calls[1].op = "ack"
  /\ calls[2].op = "edit" /\ calls[2].text = "section_menu"

\* The updates that have to do with the list of records: the 'Show record'
\* button and the list navigation callbacks.
ListUpdates ==
  { [kind |-> "text", payload |-> ButtonMainMenuShowRecord, mid |-> 0] }
  \cup { [kind |-> "callback", id |-> "cb1",
          payload |-> CallbackListNavPrefix \o v, mid |-> m] :
            v \in { <<"next">>, <<"back">>, <<"tomenu">> }, m \in MsgIDs }

CancelSectionUpdates ==
  { [kind |-> "callback", id |-> "cb1",
     payload |-> CallbackActionPrefix \o ActionCancelSection, mid |-> m] :
       m \in MsgIDs }

\* C40: cancel_section received in answering_question moves the record FSM
\* to selecting_section and leaves the draft, with every entry of its data
\* map, as it was.
C40_CancelSectionKeepsDraft ==
  recordFSM = StateAnsweringQuestion =>
    \A u \in CancelSectionUpdates : \A post \in Results(u) :
      /\ post.recordFSM = StateSelectingSection
      /\ post.draft = draft

\* C40, with the case the sentence leaves out: when the section menu cannot
\* be shown the engine forces the exit and the record FSM ends in idle; the
\* draft is as it was in both cases.
C40_CancelSectionKeepsDraftOrExits ==
  recordFSM = StateAnsweringQuestion =>
    \A u \in CancelSectionUpdates : \A post \in Results(u) :
      /\ post.draft = draft
      /\ IF MenuFailed(post)
         THEN post.recordFSM = StateRecordIdle
         ELSE post.recordFSM = StateSelectingSection

\* cancel_section came at the second question of section a: the section menu
\* is shown again, the position is still the one that was left and the
\* first answer is in the draft.
C40_Witness ==
  /\ recordFSM = StateSelectingSection
  /\ currentSection = <<"a">> /\ currentQuestion = 1
  /\ draft # None /\ DOMAIN draft.data = {"town"}
  /\ Len(calls) = 2
  /\ calls[1].op = "ack"
  /\ calls[2].op = "edit" /\ calls[2].text = "section_menu"

\* No call of the log edits the message 0.
NoEditOfZero(log) ==
  \A k \in 1..Len(log) : log[k].op = "edit" => log[k].mid # 0

\* The callbacks as they arrive when the message they come from is not
\* known.
UnknownMessageCallbacks == { [u EXCEPT !.mid = 0] : u \in CallbackUpdates }

\* C32: the engine never calls edit with message id 0: no dispatch has done
\* so, and a callback that carries no message id is served with sends
\* (section menu, prompt, final status message) or with edits of the last
\* message the engine knows.
C32_NoEditOfMessageZero ==
  /\ NoEditOfZero(calls)
  /\ \A u \in UnknownMessageCallbacks : \A post \in Results(u) :
       NoEditOfZero(post.calls)

\* 'Fill record' came as a text, so no message id was known: the section
\* menu was sent, the send failed, and the final status message of the
\* forced exit was sent too, not edited.
C32_Witness ==
  /\ recordFSM = StateRecordIdle
  /\ draft # None
  /\ Len(calls) >= 2
  /\ calls[1].op = "send" /\ calls[1].text = "section_menu"
  /\ calls[2].op = "send" /\ calls[2].text = "force_exit"

\* The titles of the section buttons, in the order of the rows.
RowTitles(rows) == [i \in 1..Len(rows) |-> rows[i].text[1]]

\* The titles of the sections of the forward message, in its order.
ForwardTitles(payload) ==
  [i \in 1..Len(payload.Sections) |-> payload.Sections[i].Title]

\* C34: the section buttons of the section menu come in the same order on
\* every rendering, and that order is the one in which the forward message
\* lists the sections (sorted by section id).
C34_MenuOrderIsForwardOrder ==
  /\ menuRows # <<>> =>
       RowTitles(menuRows) =
         ForwardTitles(buildForwardPayload(forwardRecord, UserID, wallClock))
  /\ menuBefore # <<>> => RowTitles(menuRows) = RowTitles(menuBefore)

\* The text has nothing but blanks.
Blank(text) == \A i \in 1..Len(text) : text[i] = " "

\* The questions of the schema that the text and the buttons strategy serve.
BuiltinQuestions ==
  { qc \in UNION { { Sections[sec].questions[i] :
                       i \in 1..Len(Sections[sec].questions) } :
                     sec \in DOMAIN Sections } :
      qc.type \in {"text", "buttons"} }

\* What the participant can send to a question: the inputs of the rating
\* runs and the options of the buttons questions.
AnswerInputs ==
  RatingInputs
  \cup { [source |-> "callback", text |-> <<>>, callbackData |-> d] :
           d \in { <<"tb">>, <<"ot">> } }

\* The strategy of the question has to refuse the input: it comes from the
\* wrong source for the step, its text is blank, it names no option of the
\* question, its rating is not a number of the range, or its action is
\* neither next nor finish.
Refused(kind, q, step, input) ==
  CASE kind = "text" -> input.source # "text" \/ Blank(input.text)
    [] kind = "buttons" ->
         \/ input.source # "callback"
         \/ \A i \in 1..Len(q.options) : q.options[i] # input.callbackData
    [] kind = "text_rating" /\ step = stepCollectText ->
         input.source # "text" \/ Blank(input.text)
    [] kind = "text_rating" /\ step = stepCollectRating ->
         \/ input.source # "callback"
         \/ ScanInt(input.callbackData) = -1
         \/ ScanInt(input.callbackData) < getRatingRange(q).min
         \/ ScanInt(input.callbackData) > getRatingRange(q).max
    [] OTHER ->
         \/ input.source # "callback"
         \/ input.callbackData \notin { <<"next">>, <<"finish">> }

\* The answer repeats the question with a feedback text and leaves the
\* draft's data, the step marker included, as it is.
RefusedCleanly(answer) ==
  /\ answer.err = "nil"
  /\ answer.result.repeat /\ ~answer.result.advance
  /\ answer.result.feedback # ""
  /\ answer.st.draft.data = draft.data

\* C33: whenever the text, the buttons or the text_rating strategy refuses
\* an input in HandleAnswer it returns repeat without advance and a
\* feedback text, and the draft's data map, step marker included, is
\* unchanged.
C33_RefusalKeepsData ==
  \A input \in AnswerInputs :
    /\ \A q \in BuiltinQuestions :
         Refused(q.type, q, <<>>, input) =>
           RefusedCleanly(HandleAnswer(US, q, input))
    /\ validated = "ok" /\ Refused("text_rating", ratingQuestion, RatingStep(draft), input) =>
         RefusedCleanly(ratingHandleAnswer(US, ratingQuestion, input))

\* At the rating step, with the text kept in the draft, a rating outside the
\* range was refused.
C33_Witness ==
  /\ validated = "ok"
  /\ RatingStep(draft) = stepCollectRating
  /\ getTempTextKey(ratingQuestion.id) \in DOMAIN draft.data
  /\ lastAnswer.input.source = "callback"
  /\ lastAnswer.result = RepeatWith("choose_rating_in_range")

\* C39: no saved record's data map holds a reserved key of the text_rating
\* strategy (step, temporary text, temporary rating), whatever the events
\* before the save, leaving the question between two steps included.
C39_NoReservedKeySaved ==
  \A i \in 1..Len(records) :
    records[i].saved => ReservedKeys \cap DOMAIN records[i].data = {}

\* C31: however the calls of GetOrCreateUserState interleave, all calls with
\* one participant id return one user state instance and the FSM factory
\* is invoked once for the id; a call that finds the entry changes nothing
\* but the display name of that entry.
C31_OneInstancePerParticipant ==
  /\ [](\A id \in ParticipantIDs :
          /\ Cardinality(returnedFor[id]) <= 1
          /\ Cardinality(InstancesOf(id)) <= 1)
  /\ [][ \A g \in Goroutines :
            goroutines[g].pc = "lookup" /\ goroutines'[g].pc = "return" =>
              /\ users' = users
              /\ DOMAIN heap' = DOMAIN heap
              /\ \A i \in DOMAIN heap :
                   /\ heap'[i].st = heap[i].st
                   /\ heap'[i].mu = heap[i].mu
                   /\ i # users[goroutines[g].id] => heap'[i] = heap[i] ]_vars

\* Two calls for one participant, under different names, have returned the
\* same instance, which bears the name of one of them.
C31_Witness ==
  /\ goroutines[1].pc = "got" /\ goroutines[2].pc = "got"
  /\ goroutines[1].id = goroutines[2].id
  /\ goroutines[1].name # goroutines[2].name
  /\ goroutines[1].ret = goroutines[2].ret
  /\ goroutines[1].ret \in DOMAIN heap
  /\ returnedFor[goroutines[1].id] = { goroutines[1].ret }

\* C36: the steps of a dispatch for one participant leave every field of the
\* user state of every other participant as it is, however the dispatches
\* of the participants interleave and also when the dispatch forwards a
\* record to a reviewer who is a participant too.
C36_OtherParticipantsUntouched ==
  [][ \A g \in Goroutines :
        goroutines'[g] # goroutines[g] =>
          \A other \in DOMAIN users \ { goroutines[g].id, goroutines'[g].id } :
            /\ other \in DOMAIN users'
            /\ users'[other] = users[other]
            /\ heap'[users'[other]] = heap[users[other]] ]_vars

\* The participant's dispatch has forwarded a record to the reviewer, who is
\* in the section menu with a draft of their own.
C36_Witness ==
  /\ \E g \in Goroutines :
       /\ goroutines[g].id = UserID /\ goroutines[g].pc = "handled"
       /\ goroutines[g].forwardedTo = {TargetID}
  /\ TargetID \in DOMAIN users
  /\ heap[users[TargetID]].st.recordFSM = StateSelectingSection
  /\ heap[users[TargetID]].st.draft # None

\* The goroutine has an update to handle.
Busy(g) == goroutines[g].pc # "idle"

\* The mutexes the goroutine holds.
HoldsStore(g) == storeMu = g
HeldUserStates(g) == { i \in DOMAIN heap : heap[i].mu = g }

\* Some step of the goroutine's HandleUpdate.
Progress(g) == Acquire(g) \/ Run(g)

\* C37: no goroutine waits for a user mutex while it holds the store mutex,
\* and a goroutine that has returned holds no mutex; so, the port calls
\* returning, some goroutine can always take a step while one is busy, and
\* under fair scheduling the dispatch of every accepted update completes.
C37_DispatchCompletes ==
  /\ [](\A g \in Goroutines :
          /\ goroutines[g].pc \in {"got", "locked", "handled"} => ~HoldsStore(g)
          /\ ~Busy(g) => ~HoldsStore(g) /\ HeldUserStates(g) = {})
  /\ []((\E g \in Goroutines : Busy(g)) =>
          \E g \in Goroutines : Busy(g) /\ ENABLED Progress(g))
  /\ \A g \in Goroutines : Busy(g) ~> ~Busy(g)

\* A dispatch whose section menu could not be sent, so that force_exit was
\* fired inside the enter callback, has returned: no goroutine is busy and
\* every mutex is free.
C37_Witness ==
  /\ \A g \in Goroutines : ~Busy(g)
  /\ storeMu = 0
  /\ \A i \in DOMAIN heap : heap[i].mu = 0
  /\ \E i \in DOMAIN heap :
       heap[i].st.recordFSM = StateRecordIdle /\ heap[i].st.draft # None

====
